---- MODULE Spec2Model ----
(***************************************************************************)
(* Placement-and-stabilization engine of app.js (hand markers placed next  *)
(* to detected hands), with the start/stop session control around it.      *)
(*                                                                         *)
(* Numbers.  JavaScript numbers are modelled in fixed point:               *)
(*   - coordinates and sizes are in tenths of a pixel (Px(1) = 10), so the *)
(*     half-pixel coordinates of the candidates are exact and every lerp   *)
(*     step is rounded to the nearest tenth of a pixel;                    *)
(*   - areas are in hundredths of a square pixel;                          *)
(*   - scores are in hundredths of a point (Pt(1) = 100), so the overlap   *)
(*     penalties and the bonuses are exact and the distance penalty        *)
(*     0.1 * sqrt(d2) is truncated to a hundredth of a point;              *)
(*   - times are in milliseconds.                                          *)
(***************************************************************************)
EXTENDS Integers, Sequences, FiniteSets, TLC

Px(n) == n * 10
Pt(n) == n * 100

Max(a, b) == IF a >= b THEN a ELSE b
Min(a, b) == IF a <= b THEN a ELSE b

\* Math.round on a coordinate in tenths of a pixel: nearest whole pixel,
\* halves upward.
MathRound(u) == ((u + 5) \div 10) * 10

\* Half of a length (h.width/2, visualizationHeight/2).
Half(u) == u \div 2

RECURSIVE SqrtSearch(_, _, _)
SqrtSearch(n, lo, hi) ==
    IF lo >= hi THEN lo
    ELSE LET mid == (lo + hi + 1) \div 2
         IN  IF mid * mid <= n THEN SqrtSearch(n, mid, hi)
                               ELSE SqrtSearch(n, lo, mid - 1)

\* Math.sqrt, truncated to the unit of its result.
MathSqrt(n) == SqrtSearch(n, 0, 46340)

----------------------------------------------------------------------------
(* Configuration objects of app.js.                                        *)

visualizationConfig == [width |-> Px(100), height |-> Px(160)]

stabilizationConfig ==
    [hysteresisThreshold   |-> Pt(200),
     previousPositionBonus |-> Pt(150),
     positionMemoryTimeout |-> 1000]

\* A smoothing factor of 1.2 in the place of 0.2.
TimesOvershootingFactor(d) == (12 * d + 5) \div 10

\* (d) * stabilizationConfig.smoothingFactor with smoothingFactor = 0.2,
\* rounded to the nearest tenth of a pixel.
TimesSmoothingFactor(d) == (2 * d + 5) \div 10

----------------------------------------------------------------------------
(* calculateIntersectionArea                                               *)

\* calculateIntersectionArea with the left edge of rect1 in the place of
\* the larger of the two left edges.
calculateIntersectionArea_FromRect1(rect1, rect2) ==
    LET xOverlap == Max(0, Min(rect1.x + rect1.width, rect2.x + rect2.width)
                             - rect1.x)
        yOverlap == Max(0, Min(rect1.y + rect1.height, rect2.y + rect2.height)
                             - Max(rect1.y, rect2.y))
    IN  xOverlap * yOverlap

\* calculateIntersectionArea without Math.max(0, ...).
calculateIntersectionArea_Unclamped(rect1, rect2) ==
    LET xOverlap == Min(rect1.x + rect1.width, rect2.x + rect2.width)
                      - Max(rect1.x, rect2.x)
        yOverlap == Min(rect1.y + rect1.height, rect2.y + rect2.height)
                      - Max(rect1.y, rect2.y)
    IN  xOverlap * yOverlap

calculateIntersectionArea(rect1, rect2) ==
    LET xOverlap == Max(0, Min(rect1.x + rect1.width, rect2.x + rect2.width)
                             - Max(rect1.x, rect2.x))
        yOverlap == Max(0, Min(rect1.y + rect1.height, rect2.y + rect2.height)
                             - Max(rect1.y, rect2.y))
    IN  xOverlap * yOverlap

----------------------------------------------------------------------------
(* findOptimalVisualizationPosition                                        *)

\* Names of the candidatePositions array, in its order.
candidatePositions ==
    <<"right", "left", "top", "bottom",
      "topRight", "topLeft", "bottomRight", "bottomLeft">>

\* The candidates without the margin: each touches the anchor.
getPosition_NoMargin(name, h, visualizationWidth, visualizationHeight) ==
    LET rightX  == h.x + h.width
        leftX   == h.x - visualizationWidth
        midX    == h.x + Half(h.width) - Half(visualizationWidth)
        topY    == h.y - visualizationHeight
        bottomY == h.y + h.height
        midY    == h.y + Half(h.height) - Half(visualizationHeight)
    IN  CASE name = "right"       -> [x |-> rightX, y |-> midY]
          [] name = "left"        -> [x |-> leftX,  y |-> midY]
          [] name = "top"         -> [x |-> midX,   y |-> topY]
          [] name = "bottom"      -> [x |-> midX,   y |-> bottomY]
          [] name = "topRight"    -> [x |-> rightX, y |-> topY]
          [] name = "topLeft"     -> [x |-> leftX,  y |-> topY]
          [] name = "bottomRight" -> [x |-> rightX, y |-> bottomY]
          [] name = "bottomLeft"  -> [x |-> leftX,  y |-> bottomY]

\* getPosition of the candidate called name, for the anchor h.
getPosition(name, h, visualizationWidth, visualizationHeight) ==
    LET rightX  == h.x + h.width + Px(10)
        leftX   == h.x - visualizationWidth - Px(10)
        midX    == h.x + Half(h.width) - Half(visualizationWidth)
        topY    == h.y - visualizationHeight - Px(10)
        bottomY == h.y + h.height + Px(10)
        midY    == h.y + Half(h.height) - Half(visualizationHeight)
    IN  CASE name = "right"       -> [x |-> rightX, y |-> midY]
          [] name = "left"        -> [x |-> leftX,  y |-> midY]
          [] name = "top"         -> [x |-> midX,   y |-> topY]
          [] name = "bottom"      -> [x |-> midX,   y |-> bottomY]
          [] name = "topRight"    -> [x |-> rightX, y |-> topY]
          [] name = "topLeft"     -> [x |-> leftX,  y |-> topY]
          [] name = "bottomRight" -> [x |-> rightX, y |-> bottomY]
          [] name = "bottomLeft"  -> [x |-> leftX,  y |-> bottomY]

\* No bounds test.
OutOfBounds_Never(visualization, canvasWidth, canvasHeight) == FALSE

\* The bounds test of a candidate rectangle.
OutOfBounds(visualization, canvasWidth, canvasHeight) ==
    \/ visualization.x < 0
    \/ visualization.y < 0
    \/ visualization.x + visualization.width > canvasWidth
    \/ visualization.y + visualization.height > canvasHeight

\* Sum of the intersection areas of rect with the rectangles of the list,
\* leaving out the element at index self (0: none left out); the element
\* left out is the object that is identical (!==) to the anchor being placed.
RECURSIVE IntersectionSum(_, _, _, _)
IntersectionSum(rect, list, i, self) ==
    IF i > Len(list) THEN 0
    ELSE (IF i = self THEN 0 ELSE calculateIntersectionArea(rect, list[i]))
         + IntersectionSum(rect, list, i + 1, self)

\* Math.sqrt(Math.pow(dx, 2) + Math.pow(dy, 2)) in tenths of a pixel.
Distance(dx, dy) == MathSqrt(dx * dx + dy * dy)

\* distanceToPrev <= 50
CloseToPrev_AtMost(visualization, prevPosition) ==
    LET dx == visualization.x - prevPosition.x
        dy == visualization.y - prevPosition.y
    IN  dx * dx + dy * dy <= Px(50) * Px(50)

\* distanceToPrev < 50
CloseToPrev(visualization, prevPosition) ==
    LET dx == visualization.x - prevPosition.x
        dy == visualization.y - prevPosition.y
    IN  dx * dx + dy * dy < Px(50) * Px(50)

\* The bonus on bottom in the place of top.
PreferenceBonus_Bottom(name) == IF name = "bottom" THEN Pt(100) ELSE 0

\* Bonus for preferred positions.
PreferenceBonus(name) == IF name = "top" THEN Pt(100) ELSE 0

\* Bonus for position consistency: prevPositions is
\* previousVisualizationPositions, read for the anchor's id.
ConsistencyBonus(visualization, id, prevPositions) ==
    IF id \in DOMAIN prevPositions /\ CloseToPrev(visualization, prevPositions[id])
    THEN stabilizationConfig.previousPositionBonus
    ELSE 0

\* The score of one in-bounds candidate.
InBoundsScore(name, visualization, physicalObject, self, allObjects, prevPositions) ==
    LET cx == physicalObject.x + Half(physicalObject.width)
        cy == physicalObject.y + Half(physicalObject.height)
        vx == visualization.x + Half(visualization.width)
        vy == visualization.y + Half(visualization.height)
    IN  0 - IntersectionSum(visualization, allObjects.faces, 1, 0) * 10
          - IntersectionSum(visualization, allObjects.physicalObjects, 1, self) * 5
          - IntersectionSum(visualization, allObjects.visualizations, 1, 0) * 5
          - Distance(cx - vx, cy - vy)
          + PreferenceBonus(name)
          + ConsistencyBonus(visualization, physicalObject.id, prevPositions)

\* The rectangle of the candidate called name.
Visualization(name, physicalObject, visualizationWidth, visualizationHeight) ==
    LET p == getPosition(name, physicalObject, visualizationWidth, visualizationHeight)
    IN  [x |-> p.x, y |-> p.y,
         width |-> visualizationWidth, height |-> visualizationHeight]

\* ScoreCandidate with the two bonuses added to the sentinel as well.
ScoreCandidate_BonusOnSentinel(name, physicalObject, self, visualizationWidth, visualizationHeight, allObjects, canvasWidth, canvasHeight, prevPositions) ==
    CHOOSE entry \in
      {IF OutOfBounds(visualization, canvasWidth, canvasHeight)
       THEN [position |-> name, visualization |-> visualization,
             score |-> Pt(-1000) + PreferenceBonus(name)
                       + ConsistencyBonus(visualization, physicalObject.id,
                                          prevPositions)]
       ELSE [position |-> name, visualization |-> visualization,
             score |-> InBoundsScore(name, visualization, physicalObject, self,
                                     allObjects, prevPositions)] :
       visualization \in {Visualization(name, physicalObject, visualizationWidth,
                                        visualizationHeight)}} : TRUE

\* The entry of positionScores for one candidate.
ScoreCandidate(name, physicalObject, self, visualizationWidth, visualizationHeight, allObjects, canvasWidth, canvasHeight, prevPositions) ==
    CHOOSE entry \in
      {IF OutOfBounds(visualization, canvasWidth, canvasHeight)
       THEN [position |-> name, visualization |-> visualization, score |-> Pt(-1000)]
       ELSE [position |-> name, visualization |-> visualization,
             score |-> InBoundsScore(name, visualization, physicalObject, self,
                                     allObjects, prevPositions)] :
       visualization \in {Visualization(name, physicalObject, visualizationWidth,
                                        visualizationHeight)}} : TRUE

\* candidatePositions.map(...), from the candidate at index i on.
RECURSIVE MapCandidates(_, _, _, _, _, _, _, _, _)
MapCandidates(i, physicalObject, self, visualizationWidth, visualizationHeight, allObjects, canvasWidth, canvasHeight, prevPositions) ==
    IF i > Len(candidatePositions) THEN <<>>
    ELSE <<ScoreCandidate(candidatePositions[i], physicalObject, self,
                          visualizationWidth, visualizationHeight,
                          allObjects, canvasWidth, canvasHeight, prevPositions)>>
         \o MapCandidates(i + 1, physicalObject, self, visualizationWidth,
                          visualizationHeight, allObjects, canvasWidth,
                          canvasHeight, prevPositions)

\* const positionScores, before it is sorted.
positionScores(physicalObject, self, visualizationWidth, visualizationHeight, allObjects, canvasWidth, canvasHeight, prevPositions) ==
    MapCandidates(1, physicalObject, self, visualizationWidth, visualizationHeight,
                  allObjects, canvasWidth, canvasHeight, prevPositions)

\* InsertByScore that puts an element before the elements of its own
\* score: the sort is no longer stable.
RECURSIVE InsertByScore_BeforeEqual(_, _)
InsertByScore_BeforeEqual(sorted, e) ==
    IF sorted = <<>> THEN <<e>>
    ELSE IF e.score >= Head(sorted).score THEN <<e>> \o sorted
    ELSE <<Head(sorted)>> \o InsertByScore_BeforeEqual(Tail(sorted), e)

\* positionScores.sort((a, b) => b.score - a.score): descending and stable.
RECURSIVE InsertByScore(_, _)
InsertByScore(sorted, e) ==
    IF sorted = <<>> THEN <<e>>
    ELSE IF e.score > Head(sorted).score THEN <<e>> \o sorted
    ELSE <<Head(sorted)>> \o InsertByScore(Tail(sorted), e)

RECURSIVE SortByScore(_, _, _)
SortByScore(list, i, sorted) ==
    IF i > Len(list) THEN sorted
    ELSE CHOOSE result \in
           {SortByScore(list, i + 1, inserted) :
              inserted \in {InsertByScore(sorted, list[i])}} : TRUE

\* The sorted positionScores[0].
bestPosition(scores) ==
    CHOOSE best \in {SortByScore(list, 1, <<>>)[1] : list \in {scores}} : TRUE

findOptimalVisualizationPosition(physicalObject, self, visualizationWidth, visualizationHeight, allObjects, canvasWidth, canvasHeight, prevPositions) ==
    bestPosition(positionScores(physicalObject, self, visualizationWidth,
                                visualizationHeight, allObjects,
                                canvasWidth, canvasHeight, prevPositions)).visualization

----------------------------------------------------------------------------
(* stabilizeVisualizationPosition and cleanStalePhysicalObjectPositions    *)

\* A write that replaces the whole object by the one entry.
Put_Alone(obj, key, value) == [k \in {key} |-> value]

\* obj[key] = value on a JavaScript object used as a map.
Put(obj, key, value) ==
    [k \in DOMAIN obj \cup {key} |-> IF k = key THEN value ELSE obj[k]]

\* delete obj[key] for every key of keys.
Delete(obj, keys) == [k \in DOMAIN obj \ keys |-> obj[k]]

\* The empty object {}.
EmptyObject == [k \in {} |-> 0]

\* One lerp step of a coordinate: current += (target - current) * smoothingFactor
Lerp(current, target) == current + TimesSmoothingFactor(target - current)

\* The transition state the call works on: created from the previous
\* position when the key has none, else the stored one with the new target.
TransitionFor(objectId, newPosition, prevPos, transitions) ==
    IF objectId \notin DOMAIN transitions
    THEN [targetX |-> newPosition.x, targetY |-> newPosition.y,
          currentX |-> prevPos.x, currentY |-> prevPos.y]
    ELSE [transitions[objectId] EXCEPT !.targetX = newPosition.x,
                                       !.targetY = newPosition.y]

\* stabilizeVisualizationPosition with the first placement rounded.
stabilize_FirstRounded(objectId, newPosition, prevPositions, transitions, currentTime) ==
    IF objectId \notin DOMAIN prevPositions
    THEN [positions   |-> Put(prevPositions, objectId,
                              [x |-> MathRound(newPosition.x),
                               y |-> MathRound(newPosition.y),
                               lastSeen |-> currentTime]),
          transitions |-> transitions,
          result      |-> [x |-> MathRound(newPosition.x),
                           y |-> MathRound(newPosition.y)]]
    ELSE LET t == TransitionFor(objectId, newPosition, prevPositions[objectId],
                                transitions)
             transition == [t EXCEPT !.currentX = Lerp(t.currentX, t.targetX),
                                     !.currentY = Lerp(t.currentY, t.targetY)]
         IN  [positions   |-> Put(prevPositions, objectId,
                                  [x |-> transition.currentX,
                                   y |-> transition.currentY,
                                   lastSeen |-> currentTime]),
              transitions |-> Put(transitions, objectId, transition),
              result      |-> [x |-> MathRound(transition.currentX),
                               y |-> MathRound(transition.currentY)]]

\* stabilizeVisualizationPosition with the smoothed position rounded before
\* it is kept.
stabilize_KeepsRounded(objectId, newPosition, prevPositions, transitions, currentTime) ==
    IF objectId \notin DOMAIN prevPositions
    THEN [positions   |-> Put(prevPositions, objectId,
                              [x |-> newPosition.x, y |-> newPosition.y,
                               lastSeen |-> currentTime]),
          transitions |-> transitions,
          result      |-> [x |-> newPosition.x, y |-> newPosition.y]]
    ELSE LET t == TransitionFor(objectId, newPosition, prevPositions[objectId],
                                transitions)
             transition ==
                 [t EXCEPT !.currentX = MathRound(Lerp(t.currentX, t.targetX)),
                           !.currentY = MathRound(Lerp(t.currentY, t.targetY))]
         IN  [positions   |-> Put(prevPositions, objectId,
                                  [x |-> transition.currentX,
                                   y |-> transition.currentY,
                                   lastSeen |-> currentTime]),
              transitions |-> Put(transitions, objectId, transition),
              result      |-> [x |-> transition.currentX,
                               y |-> transition.currentY]]

\* stabilizeVisualizationPosition that keeps the rounded smoothed position
\* in the memory and the unrounded one in the transition state.
stabilize_MemoryRounded(objectId, newPosition, prevPositions, transitions, currentTime) ==
    IF objectId \notin DOMAIN prevPositions
    THEN [positions   |-> Put(prevPositions, objectId,
                              [x |-> newPosition.x, y |-> newPosition.y,
                               lastSeen |-> currentTime]),
          transitions |-> transitions,
          result      |-> [x |-> newPosition.x, y |-> newPosition.y]]
    ELSE LET t == TransitionFor(objectId, newPosition, prevPositions[objectId],
                                transitions)
             transition == [t EXCEPT !.currentX = Lerp(t.currentX, t.targetX),
                                     !.currentY = Lerp(t.currentY, t.targetY)]
         IN  [positions   |-> Put(prevPositions, objectId,
                                  [x |-> MathRound(transition.currentX),
                                   y |-> MathRound(transition.currentY),
                                   lastSeen |-> currentTime]),
              transitions |-> Put(transitions, objectId, transition),
              result      |-> [x |-> MathRound(transition.currentX),
                               y |-> MathRound(transition.currentY)]]

\* stabilizeVisualizationPosition that writes lastSeen: 0.
stabilize_LastSeenZero(objectId, newPosition, prevPositions, transitions, currentTime) ==
    IF objectId \notin DOMAIN prevPositions
    THEN [positions   |-> Put(prevPositions, objectId,
                              [x |-> newPosition.x, y |-> newPosition.y,
                               lastSeen |-> 0]),
          transitions |-> transitions,
          result      |-> [x |-> newPosition.x, y |-> newPosition.y]]
    ELSE LET t == TransitionFor(objectId, newPosition, prevPositions[objectId],
                                transitions)
             transition == [t EXCEPT !.currentX = Lerp(t.currentX, t.targetX),
                                     !.currentY = Lerp(t.currentY, t.targetY)]
         IN  [positions   |-> Put(prevPositions, objectId,
                                  [x |-> transition.currentX,
                                   y |-> transition.currentY,
                                   lastSeen |-> 0]),
              transitions |-> Put(transitions, objectId, transition),
              result      |-> [x |-> MathRound(transition.currentX),
                               y |-> MathRound(transition.currentY)]]

\* stabilizeVisualizationPosition(objectId, newPosition), reading Date.now()
\* as currentTime: the two maps after the call and the returned position.
stabilizeVisualizationPosition(objectId, newPosition, prevPositions, transitions, currentTime) ==
    IF objectId \notin DOMAIN prevPositions
    THEN [positions   |-> Put(prevPositions, objectId,
                              [x |-> newPosition.x, y |-> newPosition.y,
                               lastSeen |-> currentTime]),
          transitions |-> transitions,
          result      |-> [x |-> newPosition.x, y |-> newPosition.y]]
    ELSE LET t == TransitionFor(objectId, newPosition, prevPositions[objectId],
                                transitions)
             transition == [t EXCEPT !.currentX = Lerp(t.currentX, t.targetX),
                                     !.currentY = Lerp(t.currentY, t.targetY)]
         IN  [positions   |-> Put(prevPositions, objectId,
                                  [x |-> transition.currentX,
                                   y |-> transition.currentY,
                                   lastSeen |-> currentTime]),
              transitions |-> Put(transitions, objectId, transition),
              result      |-> [x |-> MathRound(transition.currentX),
                               y |-> MathRound(transition.currentY)]]

\* StaleIds with twice the timeout.
StaleIds_DoubleTimeout(seenPhysicalObjectIds, prevPositions, currentTime) ==
    {objectId \in DOMAIN prevPositions :
        /\ objectId \notin seenPhysicalObjectIds
        /\ currentTime - prevPositions[objectId].lastSeen
              > 2 * stabilizationConfig.positionMemoryTimeout}

\* StaleIds without the timeout: every key not seen in the frame.
StaleIds_NoGrace(seenPhysicalObjectIds, prevPositions, currentTime) ==
    {objectId \in DOMAIN prevPositions : objectId \notin seenPhysicalObjectIds}

\* StaleIds with >= in the place of >.
StaleIds_AtTimeout(seenPhysicalObjectIds, prevPositions, currentTime) ==
    {objectId \in DOMAIN prevPositions :
        /\ objectId \notin seenPhysicalObjectIds
        /\ currentTime - prevPositions[objectId].lastSeen
              >= stabilizationConfig.positionMemoryTimeout}

\* The keys cleanStalePhysicalObjectPositions deletes.
StaleIds(seenPhysicalObjectIds, prevPositions, currentTime) ==
    {objectId \in DOMAIN prevPositions :
        /\ objectId \notin seenPhysicalObjectIds
        /\ currentTime - prevPositions[objectId].lastSeen
              > stabilizationConfig.positionMemoryTimeout}

\* cleanStalePhysicalObjectPositions without the delete of
\* positionTransitions[objectId].
cleanStale_KeepsTransitions(seenPhysicalObjectIds, prevPositions, transitions, currentTime) ==
    [positions   |-> Delete(prevPositions,
                            {objectId \in DOMAIN prevPositions :
                                /\ objectId \notin seenPhysicalObjectIds
                                /\ currentTime - prevPositions[objectId].lastSeen
                                      > stabilizationConfig.positionMemoryTimeout}),
     transitions |-> transitions]

\* A cleanup that deletes the transition state of a stale key and leaves
\* its memory entry.
cleanStale_KeepsPositions(seenPhysicalObjectIds, prevPositions, transitions, currentTime) ==
    [positions   |-> prevPositions,
     transitions |-> Delete(transitions,
                            {objectId \in DOMAIN prevPositions :
                                /\ objectId \notin seenPhysicalObjectIds
                                /\ currentTime - prevPositions[objectId].lastSeen
                                      > stabilizationConfig.positionMemoryTimeout})]

\* No cleanup: the two maps are left as they are.
cleanStale_Skipped(seenPhysicalObjectIds, prevPositions, transitions, currentTime) ==
    [positions |-> prevPositions, transitions |-> transitions]

cleanStalePhysicalObjectPositions(seenPhysicalObjectIds, prevPositions, transitions, currentTime) ==
    LET stale == StaleIds(seenPhysicalObjectIds, prevPositions, currentTime)
    IN  [positions   |-> Delete(prevPositions, stale),
         transitions |-> Delete(transitions, stale)]

----------------------------------------------------------------------------
(* Bounds of the model and the inputs the environment can deliver.         *)

\* Frame passes (resumptions of detectObjects after its await) in a run.
MaxFrames == 3
\* Completed startDetection calls (sessions) in a run.
MaxSessions == 2
\* The clock stops advancing at MaxTime milliseconds.
MaxTime == 1500
\* One clock step, in milliseconds.
TickMs == 500

\* null / undefined
Null == [null |-> TRUE]

\* video.videoWidth, video.videoHeight of the streams the camera can deliver.
VideoSizes == {[width |-> Px(640), height |-> Px(480)],
               [width |-> Px(320), height |-> Px(240)]}

\* A hand of handModel.estimateHands, reduced to what drawHandDetections
\* reads: the handedness and the extent of the keypoints.
Hand(handedness, minX, maxX, minY, maxY) ==
    [handedness |-> handedness, minX |-> Px(minX), maxX |-> Px(maxX),
     minY |-> Px(minY), maxY |-> Px(maxY)]

\* A face of faceModel.estimateFaces: topLeft and bottomRight.
Face(x1, y1, x2, y2) ==
    [topLeft |-> <<Px(x1), Px(y1)>>, bottomRight |-> <<Px(x2), Px(y2)>>]

\* box (200,170,100,100): all 8 candidates fit a 640x480 canvas, and only
\* top and topLeft fit a 320x240 canvas
HandA  == Hand("Left", 210, 290, 180, 260)
\* the same hand 30 px to the right and 7 px taller, box (230,170,100,107):
\* only topLeft fits a 320x240 canvas
HandA2 == Hand("Left", 240, 320, 180, 267)
\* box (100,100,50,50)
HandB  == Hand("Right", 110, 140, 110, 140)

Face1 == Face(300, 100, 400, 220)

\* The results faceModel.estimateFaces and handModel.estimateHands can
\* resolve with in a frame.
Detections ==
    {[faces |-> <<>>,      hands |-> <<>>],
     [faces |-> <<>>,      hands |-> <<HandA>>],
     [faces |-> <<Face1>>, hands |-> <<HandA2, HandB>>]}

----------------------------------------------------------------------------
(* State.                                                                  *)

VARIABLES
    isDetecting,                    \* let isDetecting
    animationId,                    \* let animationId (0: undefined or null)
    allDetectedObjects,             \* let allDetectedObjects
    previousVisualizationPositions, \* let previousVisualizationPositions
    positionTransitions,            \* let positionTransitions
    canvas,                         \* canvas.width, canvas.height
    startBtnDisabled,               \* startBtn.disabled
    stopBtnDisabled,                \* stopBtn.disabled
    detectionsElement,              \* the items of detectionsElement
    starts,         \* startDetection calls suspended at an await, per await
    awaiting,       \* detectObjects calls suspended at Promise.all, per session
    rafPending,     \* handles of the requested animation frames not yet run
    now,            \* Date.now()
    frames,         \* history: frame passes run (the last handle requested)
    session,        \* history: completed startDetection calls
    stopped,        \* history: stopDetection returned, startDetection not invoked since
    writtenBy,      \* history: per memory key, the session whose detection wrote it
    lastPass,       \* history: the last frame pass
    scored,         \* the last positionScores and returned rectangle (scoring runs)
    fixedTarget,    \* the target of the repeated calls (stabilization runs)
    returned,       \* the position the last call returned (stabilization runs)
    intersection,   \* two rectangles and their areas (intersection runs)
    lastCall,       \* the last call and its arguments (runs of single calls)
    variant2        \* the state of the second variant of the engine (paired runs)

vars == <<isDetecting, animationId, allDetectedObjects,
          previousVisualizationPositions, positionTransitions, canvas,
          startBtnDisabled, stopBtnDisabled, detectionsElement, starts, awaiting,
          rafPending, now, frames, session, stopped, writtenBy, lastPass, scored,
          fixedTarget, returned, intersection, lastCall, variant2>>

\* The variables of the engine and of the page.
programVars == <<isDetecting, animationId, allDetectedObjects,
                 previousVisualizationPositions, positionTransitions, canvas,
                 startBtnDisabled, stopBtnDisabled, detectionsElement>>

otherRuns == <<scored, fixedTarget, returned, intersection, lastCall, variant2>>

EmptyObjects == [faces |-> <<>>, physicalObjects |-> <<>>, visualizations |-> <<>>]

\* No frame pass yet.
NoPass == [seen |-> {}, previousSeen |-> {}, placements |-> <<>>,
           expired |-> {}, previousExpired |-> {}, canvas |-> Null,
           detection |-> Null]

\* The page after init(): the start button enabled (line 79), the stop
\* button still disabled, the canvas of its default size, no session yet.
Init ==
    /\ isDetecting = FALSE
    /\ animationId = 0
    /\ allDetectedObjects = EmptyObjects
    /\ previousVisualizationPositions = EmptyObject
    /\ positionTransitions = EmptyObject
    /\ canvas = [width |-> Px(300), height |-> Px(150)]
    /\ startBtnDisabled = FALSE
    /\ stopBtnDisabled = TRUE
    /\ detectionsElement = <<>>
    /\ starts = [media |-> 0, play |-> 0]
    /\ awaiting = [s \in 1..MaxSessions |-> 0]
    /\ rafPending = {}
    /\ now = 0
    /\ frames = 0
    /\ session = 0
    /\ stopped = FALSE
    /\ writtenBy = EmptyObject
    /\ lastPass = NoPass
    /\ scored = Null
    /\ fixedTarget = Null
    /\ returned = Null
    /\ intersection = Null
    /\ lastCall = Null
    /\ variant2 = Null

----------------------------------------------------------------------------
(* startDetection, stopDetection                                           *)

\* The first part of detectObjects, up to its await: nothing when
\* isDetecting is false, else the two estimates are started and the call
\* is suspended.  aw is the calls suspended before, s the running session.
detectObjectsCall(detecting, aw, s) ==
    IF ~detecting THEN aw ELSE [aw EXCEPT ![s] = @ + 1]

\* A click on the start button: startDetection runs up to its first await.
StartClick ==
    /\ ~startBtnDisabled
    /\ session + starts.media + starts.play < MaxSessions
    /\ starts' = [starts EXCEPT !.media = @ + 1]
    /\ stopped' = FALSE
    /\ UNCHANGED <<programVars, awaiting, rafPending, now, frames, session,
                   writtenBy, lastPass, otherRuns>>

\* An awaited promise of startDetection rejects: the catch block alerts.
StartFail ==
    /\ \E stage \in {"media", "play"} :
          /\ starts[stage] > 0
          /\ starts' = [starts EXCEPT ![stage] = @ - 1]
    /\ UNCHANGED <<programVars, awaiting, rafPending, now, frames, session,
                   stopped, writtenBy, lastPass, otherRuns>>

\* getUserMedia resolved and the metadata loaded: the canvas takes the
\* size of the video, and video.play() is awaited.
StartMetadata ==
    /\ starts.media > 0
    /\ \E video \in VideoSizes :
          canvas' = [width |-> video.width, height |-> video.height]
    /\ starts' = [media |-> starts.media - 1, play |-> starts.play + 1]
    /\ UNCHANGED <<isDetecting, animationId, allDetectedObjects,
                   previousVisualizationPositions, positionTransitions,
                   startBtnDisabled, stopBtnDisabled, detectionsElement,
                   awaiting, rafPending, now, frames, session, stopped,
                   writtenBy, lastPass, otherRuns>>

\* video.play() resolved: the rest of startDetection, with its call of
\* detectObjects.
StartPlay ==
    /\ starts.play > 0
    /\ starts' = [starts EXCEPT !.play = @ - 1]
    /\ startBtnDisabled' = TRUE
    /\ stopBtnDisabled' = FALSE
    /\ previousVisualizationPositions' = EmptyObject
    /\ positionTransitions' = EmptyObject
    /\ writtenBy' = EmptyObject
    /\ isDetecting' = TRUE
    /\ session' = session + 1
    /\ awaiting' = detectObjectsCall(TRUE, awaiting, session + 1)
    /\ UNCHANGED <<animationId, allDetectedObjects, canvas, detectionsElement,
                   rafPending, now, frames, stopped, lastPass, otherRuns>>

\* A click on the stop button: stopDetection.
StopClick ==
    /\ ~stopBtnDisabled
    /\ IF animationId # 0
       THEN /\ rafPending' = rafPending \ {animationId}
            /\ animationId' = 0
       ELSE UNCHANGED <<rafPending, animationId>>
    /\ detectionsElement' = <<>>
    /\ startBtnDisabled' = FALSE
    /\ stopBtnDisabled' = TRUE
    /\ isDetecting' = FALSE
    /\ stopped' = TRUE
    /\ UNCHANGED <<allDetectedObjects, previousVisualizationPositions,
                   positionTransitions, canvas, starts, awaiting, now, frames,
                   session, writtenBy, lastPass, otherRuns>>

----------------------------------------------------------------------------
(* detectObjects, drawFaceDetections, drawHandDetections                   *)

\* A requested animation frame runs its callback, detectObjects.
RafFire ==
    /\ \E handle \in rafPending :
          /\ rafPending' = rafPending \ {handle}
          /\ awaiting' = detectObjectsCall(isDetecting, awaiting, session)
    /\ UNCHANGED <<programVars, starts, now, frames, session, stopped,
                   writtenBy, lastPass, otherRuns>>

\* What drawFaceDetections pushes to allDetectedObjects.faces for a face.
FaceData(face) ==
    [x |-> face.topLeft[1], y |-> face.topLeft[2],
     width  |-> face.bottomRight[1] - face.topLeft[1],
     height |-> face.bottomRight[2] - face.topLeft[2]]

\* drawFaceDetections(faceDetections) on the containers as the pass before
\* left them, without the reset of lines 171-178.
drawFaceDetections_NoReset(faceDetections) ==
    [objects |-> [allDetectedObjects EXCEPT
                     !.faces = @ \o [i \in 1..Len(faceDetections) |->
                                        FaceData(faceDetections[i])]],
     list    |-> detectionsElement
                   \o [i \in 1..Len(faceDetections) |-> "Face"]]

\* drawFaceDetections(faceDetections) on the containers just reset: the
\* obstacle set and the detection list after it.
drawFaceDetections(faceDetections) ==
    [objects |-> [faces |-> [i \in 1..Len(faceDetections) |->
                                FaceData(faceDetections[i])],
                  physicalObjects |-> <<>>,
                  visualizations  |-> <<>>],
     list    |-> [i \in 1..Len(faceDetections) |-> "Face"]]

\* HandObject with the handedness alone as id.
HandObject_IdWithoutIndex(hand, i) ==
    LET padding    == Px(10)
        handedness == IF hand.handedness = "Left" THEN "Right" ELSE "Left"
    IN  [id     |-> <<handedness, 0>>,
         x      |-> Max(0, hand.minX - padding),
         y      |-> Max(0, hand.minY - padding),
         width  |-> (hand.maxX - hand.minX) + 2 * padding,
         height |-> (hand.maxY - hand.minY) + 2 * padding,
         label  |-> handedness]

\* The handObject drawHandDetections builds for the hand at index i.
HandObject(hand, i) ==
    LET padding    == Px(10)
        handedness == IF hand.handedness = "Left" THEN "Right" ELSE "Left"
    IN  [id     |-> <<handedness, i>>,
         x      |-> Max(0, hand.minX - padding),
         y      |-> Max(0, hand.minY - padding),
         width  |-> (hand.maxX - hand.minX) + 2 * padding,
         height |-> (hand.maxY - hand.minY) + 2 * padding,
         label  |-> handedness]

\* DrawVisualization that pushes the chosen position, not the stabilized
\* one, to allDetectedObjects.visualizations.
DrawVisualization_PushesTarget(handObject, hadEntry, refreshed, objects, scores, visualizationPosition, st, currentTime) ==
    LET handId == handObject.id
        best   == bestPosition(scores)
        record(result) ==
            [id        |-> handId,
             anchor    |-> [x |-> handObject.x, y |-> handObject.y,
                            width |-> handObject.width,
                            height |-> handObject.height],
             allObjects |-> objects,
             scores    |-> [j \in 1..Len(scores) |-> scores[j].score],
             position  |-> best.position,
             placed    |-> visualizationPosition # Null,
             hadEntry  |-> hadEntry,
             hadTransition |-> handId \in DOMAIN st.transitions,
             previous  |-> IF hadEntry
                           THEN [x |-> refreshed[handId].x,
                                 y |-> refreshed[handId].y]
                           ELSE Null,
             bestScore |-> best.score,
             target    |-> visualizationPosition,
             result    |-> result]
    IN  IF visualizationPosition # Null
        THEN CHOOSE after \in
               {[objects     |-> [objects EXCEPT !.visualizations =
                                     Append(@, [x |-> visualizationPosition.x,
                                                y |-> visualizationPosition.y,
                                                width  |-> visualizationConfig.width,
                                                height |-> visualizationConfig.height])],
                 positions   |-> stabilized.positions,
                 transitions |-> stabilized.transitions,
                 seen        |-> st.seen \cup {handId},
                 list        |-> Append(st.list, handObject.label),
                 placements  |-> Append(st.placements, record(stabilized.result))] :
                stabilized \in {stabilizeVisualizationPosition(handId,
                                   visualizationPosition, refreshed,
                                   st.transitions, currentTime)}} : TRUE
        ELSE [objects     |-> objects,
              positions   |-> refreshed,
              transitions |-> st.transitions,
              seen        |-> st.seen \cup {handId},
              list        |-> Append(st.list, handObject.label),
              placements  |-> Append(st.placements, record(Null))]

\* The rest of the forEach callback once the position is chosen: the
\* stabilization, the drawing and the push to
\* allDetectedObjects.visualizations when a position was found.
DrawVisualization(handObject, hadEntry, refreshed, objects, scores, visualizationPosition, st, currentTime) ==
    LET handId == handObject.id
        best   == bestPosition(scores)
        record(result) ==
            [id        |-> handId,
             anchor    |-> [x |-> handObject.x, y |-> handObject.y,
                            width |-> handObject.width,
                            height |-> handObject.height],
             allObjects |-> objects,
             scores    |-> [j \in 1..Len(scores) |-> scores[j].score],
             position  |-> best.position,
             placed    |-> visualizationPosition # Null,
             hadEntry  |-> hadEntry,
             hadTransition |-> handId \in DOMAIN st.transitions,
             previous  |-> IF hadEntry
                           THEN [x |-> refreshed[handId].x,
                                 y |-> refreshed[handId].y]
                           ELSE Null,
             bestScore |-> best.score,
             target    |-> visualizationPosition,
             result    |-> result]
    IN  IF visualizationPosition # Null
        THEN CHOOSE after \in
               {[objects     |-> [objects EXCEPT !.visualizations =
                                     Append(@, [x |-> stabilized.result.x,
                                                y |-> stabilized.result.y,
                                                width  |-> visualizationConfig.width,
                                                height |-> visualizationConfig.height])],
                 positions   |-> stabilized.positions,
                 transitions |-> stabilized.transitions,
                 seen        |-> st.seen \cup {handId},
                 list        |-> Append(st.list, handObject.label),
                 placements  |-> Append(st.placements, record(stabilized.result))] :
                stabilized \in {stabilizeVisualizationPosition(handId,
                                   visualizationPosition, refreshed,
                                   st.transitions, currentTime)}} : TRUE
        ELSE [objects     |-> objects,
              positions   |-> refreshed,
              transitions |-> st.transitions,
              seen        |-> st.seen \cup {handId},
              list        |-> Append(st.list, handObject.label),
              placements  |-> Append(st.placements, record(Null))]

\* One call of the forEach callback of drawHandDetections, for the hand at
\* index i, on the state st of the pass: st.objects is allDetectedObjects,
\* st.positions previousVisualizationPositions, st.transitions
\* positionTransitions, st.seen seenPhysicalObjectIds, st.list the detection
\* list, st.placements the history of the calls of the pass (per call: the
\* key, whether a position was found and drawn, whether the key had a
\* memory entry and a transition state before, the remembered position
\* before, the best score, the chosen position and the drawn position, and
\* also the box of the anchor, allDetectedObjects as passed to
\* findOptimalVisualizationPosition, the scores of its candidates in the
\* order of candidatePositions and the name of the best one).
PlaceHand(hand, i, st, cv, currentTime) ==
    CHOOSE after \in
      {DrawVisualization(handObject, hadEntry, refreshed, objects, scores,
                         visualizationPosition, st, currentTime) :
         <<handObject, hadEntry, refreshed, objects, scores, visualizationPosition>> \in
           {LET handObject == HandObject(hand, i)
                handId     == handObject.id
                hadEntry   == handId \in DOMAIN st.positions
                refreshed  == IF hadEntry
                              THEN [st.positions EXCEPT
                                       ![handId].lastSeen = currentTime]
                              ELSE st.positions
                objects    == [st.objects EXCEPT
                                  !.physicalObjects = Append(@, handObject)]
                self       == Len(objects.physicalObjects)
            IN  <<handObject, hadEntry, refreshed, objects,
                  positionScores(handObject, self,
                      visualizationConfig.width, visualizationConfig.height,
                      objects, cv.width, cv.height, refreshed),
                  findOptimalVisualizationPosition(handObject, self,
                      visualizationConfig.width, visualizationConfig.height,
                      objects, cv.width, cv.height, refreshed)>>}} : TRUE

\* drawHandDetections(handDetections, seenPhysicalObjectIds): the forEach,
\* from index i on.
RECURSIVE drawHandDetections(_, _, _, _, _)
drawHandDetections(handDetections, i, st, cv, currentTime) ==
    IF i >= Len(handDetections) THEN st
    ELSE CHOOSE after \in
           {drawHandDetections(handDetections, i + 1, next, cv, currentTime) :
              next \in {PlaceHand(handDetections[i + 1], i, st, cv, currentTime)}} :
           TRUE

\* The awaited estimates of a suspended detectObjects resolve with one of
\* detections, and the rest of detectObjects runs: the frame pass.
DetectAndDraw(detections) ==
    \E s \in DOMAIN awaiting, detection \in detections :
       /\ awaiting[s] > 0
       /\ awaiting' = [awaiting EXCEPT ![s] = @ - 1]
       /\ \E placed \in {drawHandDetections(detection.hands, 0,
                           [objects     |-> drawFaceDetections(detection.faces).objects,
                            positions   |-> previousVisualizationPositions,
                            transitions |-> positionTransitions,
                            seen        |-> {},
                            list        |-> drawFaceDetections(detection.faces).list,
                            placements  |-> <<>>],
                           canvas, now)} :
          \E cleaned \in {cleanStalePhysicalObjectPositions(placed.seen,
                            placed.positions, placed.transitions, now)} :
            LET written == {placed.placements[j].id :
                               j \in 1..Len(placed.placements)}
            IN  /\ allDetectedObjects' = placed.objects
                /\ detectionsElement' = placed.list
                /\ previousVisualizationPositions' = cleaned.positions
                /\ positionTransitions' = cleaned.transitions
                /\ writtenBy' =
                      [k \in DOMAIN cleaned.positions |->
                          IF k \in written THEN s ELSE writtenBy[k]]
                /\ lastPass' = [seen         |-> placed.seen,
                                previousSeen |-> lastPass.seen,
                                placements   |-> placed.placements,
                                expired      |-> DOMAIN placed.positions
                                                    \ DOMAIN cleaned.positions,
                                previousExpired |-> lastPass.expired,
                                canvas       |-> canvas,
                                detection    |-> detection]

\* A frame pass, and the request of the next frame (line 193); the handle
\* of the request is the number of the pass.
FramePassOf(detections) ==
    /\ frames < MaxFrames
    /\ DetectAndDraw(detections)
    /\ frames' = frames + 1
    /\ animationId' = frames + 1
    /\ rafPending' = rafPending \cup {frames + 1}
    /\ UNCHANGED <<isDetecting, canvas, startBtnDisabled, stopBtnDisabled,
                   starts, now, session, stopped, otherRuns>>

FramePass == FramePassOf(Detections)

\* The awaited estimates reject: the catch block of detectObjects logs the
\* error, and the call ends.
DetectionReject ==
    /\ \E s \in DOMAIN awaiting :
          /\ awaiting[s] > 0
          /\ awaiting' = [awaiting EXCEPT ![s] = @ - 1]
    /\ UNCHANGED <<programVars, starts, rafPending, now, frames, session,
                   stopped, writtenBy, lastPass, otherRuns>>

\* The clock advances.
Tick ==
    /\ now + TickMs <= MaxTime
    /\ now' = now + TickMs
    /\ UNCHANGED <<programVars, starts, awaiting, rafPending, frames, session,
                   stopped, writtenBy, lastPass, otherRuns>>

Next ==
    \/ StartClick
    \/ StartFail
    \/ StartMetadata
    \/ StartPlay
    \/ StopClick
    \/ RafFire
    \/ FramePass
    \/ DetectionReject
    \/ Tick

Spec == Init /\ [][Next]_vars

----------------------------------------------------------------------------
(* Properties of the frame passes and of the sessions (Spec).              *)

\* The calls of the forEach callback in the last frame pass.
Placements == {lastPass.placements[j] : j \in 1..Len(lastPass.placements)}

\* A step that is a frame pass.
IsFramePass == frames' = frames + 1

\* rect = (x, y, 100 x 160) lies inside the canvas c.
InsideCanvas(x, y, c) ==
    /\ 0 <= x
    /\ 0 <= y
    /\ x + visualizationConfig.width <= c.width
    /\ y + visualizationConfig.height <= c.height

\* C2: when the best score of an anchor is below -500 the marker is
\* skipped: no position is returned, nothing is drawn or pushed to
\* allDetectedObjects.visualizations, and the memory of a key that had no
\* entry is not written.
C2_BelowThresholdSkipped ==
    /\ \A r \in Placements :
          r.bestScore < Pt(-500) =>
             /\ ~r.placed
             /\ r.target = Null
             /\ ~r.hadEntry => r.id \notin DOMAIN previousVisualizationPositions
    /\ Len(allDetectedObjects.visualizations)
          = Cardinality({r \in Placements : r.bestScore >= Pt(-500)})

\* C3: every marker rectangle drawn in a frame pass lies inside the canvas
\* of that pass.
C3_DrawnInsideCanvas ==
    \A r \in Placements :
       r.placed => InsideCanvas(r.result.x, r.result.y, lastPass.canvas)

\* C5 as stated: the position memory and the transition state have the
\* same keys.
C5_SameKeys ==
    DOMAIN previousVisualizationPositions = DOMAIN positionTransitions

\* C5 as amended: every key with a transition state has a position memory
\* entry; the first placement of a key creates the memory entry alone, and
\* the second placement creates the transition state, seeded from the
\* remembered position and the new target before its lerp step.
C5_TransitionKeysInMemory ==
    /\ DOMAIN positionTransitions \subseteq DOMAIN previousVisualizationPositions
    /\ \A r \in Placements :
          (r.placed /\ r.id \in DOMAIN previousVisualizationPositions) =>
             /\ r.hadEntry <=> r.id \in DOMAIN positionTransitions
             /\ (r.hadEntry /\ ~r.hadTransition) =>
                   LET t == positionTransitions[r.id]
                   IN  /\ t.targetX = r.target.x
                       /\ t.targetY = r.target.y
                       /\ t.currentX = r.previous.x
                                        + (2 * (r.target.x - r.previous.x) + 5) \div 10
                       /\ t.currentY = r.previous.y
                                        + (2 * (r.target.y - r.previous.y) + 5) \div 10

\* A key is in the memory without a transition state after its first
\* placement, and a key placed a second time has got its transition state.
C5_Witness ==
    /\ \E r \in Placements :
          /\ r.placed /\ ~r.hadEntry
          /\ r.id \in DOMAIN previousVisualizationPositions
          /\ r.id \notin DOMAIN positionTransitions
    /\ \E r \in Placements :
          /\ r.placed /\ r.hadEntry /\ ~r.hadTransition
          /\ r.id \in DOMAIN positionTransitions

C7_RetainedThroughGap ==
    [][IsFramePass =>
         /\ \A k \in DOMAIN previousVisualizationPositions :
               (/\ k \notin lastPass'.seen
                /\ now - previousVisualizationPositions[k].lastSeen <= 1000)
               => /\ k \in DOMAIN previousVisualizationPositions'
                  /\ previousVisualizationPositions'[k]
                        = previousVisualizationPositions[k]
                  /\ k \in DOMAIN positionTransitions
                        => /\ k \in DOMAIN positionTransitions'
                           /\ positionTransitions'[k] = positionTransitions[k]
         /\ \A r \in {lastPass'.placements[j] : j \in 1..Len(lastPass'.placements)} :
               (/\ r.id \in DOMAIN previousVisualizationPositions
                /\ r.id \notin lastPass.seen)
               => /\ r.hadEntry
                  /\ r.result.x = MathRound(previousVisualizationPositions[r.id].x
                        + (2 * (r.target.x - previousVisualizationPositions[r.id].x) + 5)
                             \div 10)
                  /\ r.result.y = MathRound(previousVisualizationPositions[r.id].y
                        + (2 * (r.target.y - previousVisualizationPositions[r.id].y) + 5)
                             \div 10)]_vars

\* A key not seen in the pass before was placed again from its retained
\* entry, at a position that is not the raw target.
C7_Witness ==
    \E r \in Placements :
       /\ r.hadEntry
       /\ r.id \notin lastPass.previousSeen
       /\ r.placed
       /\ r.result # [x |-> r.target.x, y |-> r.target.y]

\* C8: every entry of the position memory was written by a frame pass
\* whose detection was started in the running session.
C8_NoEntryOfEarlierSession ==
    \A k \in DOMAIN previousVisualizationPositions : writtenBy[k] = session

\* C9: from the return of stopDetection to the next call of startDetection
\* no frame pass runs and no animation frame is pending.
C9_QuietWhileStopped ==
    [][/\ stopped => ~IsFramePass
       /\ stopped' => rafPending' = {}]_vars

----------------------------------------------------------------------------
(* findOptimalVisualizationPosition on its own (SpecScore): the canvas,    *)
(* the obstacles and the position memory are drawn from bounded sets, and  *)
(* each step scores the candidates of one anchor.                          *)

\* The anchors scored: the boxes of HandA and HandA2, a box in the top
\* left corner, (0,0,70,70), the box (200,30,100,100), whose upper
\* candidates are above the canvas, and the box (100,100,50,50).  All of
\* them have the id Right_0.
ScoreAnchors ==
    {HandObject(HandA, 0), HandObject(HandA2, 0),
     HandObject(Hand("Left", 10, 60, 10, 60), 0),
     HandObject(Hand("Left", 210, 290, 40, 120), 0),
     HandObject(Hand("Left", 110, 140, 110, 140), 0)}

\* The obstacles in allDetectedObjects when an anchor is scored.
ScoreObstacles ==
    {EmptyObjects,
     [faces |-> <<FaceData(Face1)>>,
      physicalObjects |-> <<HandObject(HandB, 1)>>,
      visualizations |-> <<>>],
     [faces |-> <<>>,
      physicalObjects |-> <<HandObject(HandB, 1)>>,
      visualizations |-> <<[x |-> Px(160), y |-> Px(100),
                            width |-> visualizationConfig.width,
                            height |-> visualizationConfig.height]>>]}

\* The remembered positions: the rectangle of a candidate of an anchor, as
\* it is or 30 px, 49.9 px or 50 px to the right of it.
ScoreMemoryPoints ==
    {[x |-> v.x + shift, y |-> v.y, lastSeen |-> 0] :
        v \in {Visualization(candidatePositions[j], anchor,
                             visualizationConfig.width, visualizationConfig.height) :
                 j \in 1..Len(candidatePositions), anchor \in ScoreAnchors},
        shift \in {0, Px(30), Px(50) - 1, Px(50)}}

\* The contents of the position memory: empty, one entry of the key of
\* the anchors, or one entry of another key.
ScoreMemories ==
    {EmptyObject}
      \cup {Put(EmptyObject, <<"Right", 0>>, m) : m \in ScoreMemoryPoints}
      \cup {Put(EmptyObject, <<"Left", 1>>, m) :
               m \in {p \in ScoreMemoryPoints : p.x % Px(10) = 0 /\ p.y % Px(10) = 0}}

InitScore ==
    /\ isDetecting = TRUE
    /\ animationId = 0
    /\ allDetectedObjects \in ScoreObstacles
    /\ previousVisualizationPositions \in ScoreMemories
    /\ positionTransitions = EmptyObject
    /\ canvas \in VideoSizes
    /\ startBtnDisabled = TRUE
    /\ stopBtnDisabled = FALSE
    /\ detectionsElement = <<>>
    /\ starts = [media |-> 0, play |-> 0]
    /\ awaiting = [s \in 1..MaxSessions |-> 0]
    /\ rafPending = {}
    /\ now = 0
    /\ frames = 0
    /\ session = 1
    /\ stopped = FALSE
    /\ writtenBy = EmptyObject
    /\ lastPass = NoPass
    /\ scored = Null
    /\ fixedTarget = Null
    /\ returned = Null
    /\ intersection = Null
    /\ lastCall = Null
    /\ variant2 = Null

\* The anchor is the last physical object pushed (line 346) when its
\* candidates are scored (lines 479-547).
ScoreAnchor ==
    \E anchor \in ScoreAnchors :
       \E objects \in {[allDetectedObjects EXCEPT
                          !.physicalObjects = @ \o <<anchor>>]} :
          /\ scored' = [physicalObject |-> anchor,
                        positionScores |->
                           positionScores(anchor, Len(objects.physicalObjects),
                                          visualizationConfig.width,
                                          visualizationConfig.height,
                                          objects, canvas.width, canvas.height,
                                          previousVisualizationPositions),
                        result |->
                           findOptimalVisualizationPosition(
                                          anchor, Len(objects.physicalObjects),
                                          visualizationConfig.width,
                                          visualizationConfig.height,
                                          objects, canvas.width, canvas.height,
                                          previousVisualizationPositions)]
          /\ UNCHANGED <<programVars, starts, awaiting, rafPending, now, frames,
                         session, stopped, writtenBy, lastPass, fixedTarget,
                         returned, intersection, lastCall, variant2>>

NextScore == ScoreAnchor

SpecScore == InitScore /\ [][NextScore]_vars

\* C1: every candidate whose rectangle extends past the canvas (x < 0,
\* y < 0, x + width > canvasWidth or y + height > canvasHeight) has the
\* score -1000 exactly, whatever the obstacles and the position memory are.
C1_OutOfBoundsSentinel ==
    scored # Null =>
       \A j \in 1..Len(scored.positionScores) :
          LET e == scored.positionScores[j]
              v == e.visualization
          IN  (\/ v.x < 0
               \/ v.y < 0
               \/ v.x + v.width > canvas.width
               \/ v.y + v.height > canvas.height) => e.score = Pt(-1000)

\* The preferred candidate (top) is out of bounds while the memory holds a
\* position less than 50 px from it, and other candidates are in bounds.
C1_Witness ==
    /\ scored # Null
    /\ scored.physicalObject.id \in DOMAIN previousVisualizationPositions
    /\ \E j \in 1..Len(scored.positionScores) :
          LET e == scored.positionScores[j]
              v == e.visualization
              m == previousVisualizationPositions[scored.physicalObject.id]
          IN  /\ e.position = "top"
              /\ v.y < 0
              /\ (v.x - m.x) * (v.x - m.x) + (v.y - m.y) * (v.y - m.y)
                    < Px(50) * Px(50)
              /\ e.score = Pt(-1000)
    /\ \E j \in 1..Len(scored.positionScores) :
          scored.positionScores[j].score > Pt(-1000)

----------------------------------------------------------------------------
(* stabilizeVisualizationPosition on its own (SpecStab): one key, called   *)
(* again and again with the same target while the clock advances.          *)

\* The key of the calls.
StabKey == <<"Right", 0>>

\* The remembered positions of a key that was placed before (whole pixels).
StabStarts ==
    {[x |-> Px(a), y |-> Px(b), lastSeen |-> 0] : a \in {0, 37, 530}, b \in {3, 310}}

\* The targets: whole pixels, and one that has half pixels, as the
\* candidates of an anchor of odd width have.
StabTargets ==
    {[x |-> Px(310), y |-> Px(100)],
     [x |-> Px(40),  y |-> Px(200)],
     [x |-> Px(105) + 5, y |-> Px(10) + 5]}

InitStab ==
    /\ isDetecting = TRUE
    /\ animationId = 0
    /\ allDetectedObjects = EmptyObjects
    /\ previousVisualizationPositions
          \in {EmptyObject} \cup {Put(EmptyObject, StabKey, m) : m \in StabStarts}
    /\ positionTransitions = EmptyObject
    /\ canvas \in {[width |-> Px(640), height |-> Px(480)]}
    /\ startBtnDisabled = TRUE
    /\ stopBtnDisabled = FALSE
    /\ detectionsElement = <<>>
    /\ starts = [media |-> 0, play |-> 0]
    /\ awaiting = [s \in 1..MaxSessions |-> 0]
    /\ rafPending = {}
    /\ now = 0
    /\ frames = 0
    /\ session = 1
    /\ stopped = FALSE
    /\ writtenBy = EmptyObject
    /\ lastPass = NoPass
    /\ scored = Null
    /\ fixedTarget \in StabTargets
    /\ returned = Null
    /\ intersection = Null
    /\ lastCall = Null
    /\ variant2 = Null

\* stabilizeVisualizationPosition(StabKey, fixedTarget)
StabCall ==
    \E st \in {stabilizeVisualizationPosition(
                  StabKey,
                  [x |-> fixedTarget.x, y |-> fixedTarget.y,
                   width |-> visualizationConfig.width,
                   height |-> visualizationConfig.height],
                  previousVisualizationPositions, positionTransitions, now)} :
       /\ previousVisualizationPositions' = st.positions
       /\ positionTransitions' = st.transitions
       /\ returned' = st.result
       /\ UNCHANGED <<isDetecting, animationId, allDetectedObjects, canvas,
                      startBtnDisabled, stopBtnDisabled, detectionsElement,
                      starts, awaiting, rafPending, now, frames, session,
                      stopped, writtenBy, lastPass, scored, fixedTarget,
                      intersection, lastCall, variant2>>

NextStab == StabCall \/ Tick

\* The calls are repeated: a call that changes something is not put off
\* for ever.
SpecStab == InitStab /\ [][NextStab]_vars /\ WF_vars(StabCall)

\* C4: the call for a key without a memory entry returns the new position
\* exactly, stores its x and y with lastSeen = now, and creates no
\* transition state.
C4_FirstPlacementExact ==
    [][(StabKey \notin DOMAIN previousVisualizationPositions /\ returned' # returned)
         => /\ returned' = fixedTarget
            /\ DOMAIN previousVisualizationPositions' = {StabKey}
            /\ previousVisualizationPositions'[StabKey]
                  = [x |-> fixedTarget.x, y |-> fixedTarget.y, lastSeen |-> now]
            /\ positionTransitions' = positionTransitions]_vars

\* The first call was made late, with a target that has half pixels, and
\* returned it.
C4_Witness ==
    /\ returned = fixedTarget
    /\ fixedTarget.x % 10 # 0
    /\ StabKey \in DOMAIN previousVisualizationPositions
    /\ previousVisualizationPositions[StabKey].lastSeen > 0
    /\ StabKey \notin DOMAIN positionTransitions

\* C10: for a key with a memory entry and a target of whole pixels, the
\* repeated calls with that target lead to a call that returns the target.
C10_ReachesTarget ==
    (/\ StabKey \in DOMAIN previousVisualizationPositions
     /\ fixedTarget # Null
     /\ fixedTarget.x % 10 = 0
     /\ fixedTarget.y % 10 = 0) ~> (returned = fixedTarget)

\* A call has returned the target while the smoothed position it keeps is
\* still short of it.
C10_Witness ==
    /\ returned = fixedTarget
    /\ StabKey \in DOMAIN positionTransitions
    /\ positionTransitions[StabKey].currentX # fixedTarget.x
    /\ positionTransitions[StabKey].currentY # fixedTarget.y

\* The smoothed coordinates a call for StabKey starts from: those of the
\* transition state, or the remembered ones when there is none yet.
SmoothedX ==
    IF StabKey \in DOMAIN positionTransitions
    THEN positionTransitions[StabKey].currentX
    ELSE previousVisualizationPositions[StabKey].x

SmoothedY ==
    IF StabKey \in DOMAIN positionTransitions
    THEN positionTransitions[StabKey].currentY
    ELSE previousVisualizationPositions[StabKey].y

\* c1 lies between c0 and t, and its distance to t is 0.8 times that of
\* c0, to the nearest tenth of a pixel.
LerpStep(c0, c1, t) ==
    /\ Min(c0, t) <= c1
    /\ c1 <= Max(c0, t)
    /\ 5 * (t - c1) - 4 * (t - c0) \in -2..2

\* r1 is not further back than r0 on the way from c0 to t.
TowardTarget(r0, r1, c0, t) ==
    IF t >= c0 THEN r1 >= r0 ELSE r1 <= r0

\* C11: in every call for a key that has a memory entry, on each axis the
\* new smoothed coordinate lies between the previous one and the target,
\* the remaining distance is 0.8 times the previous distance, and from one
\* such call to the next the returned coordinate does not move back.
C11_NoOvershoot ==
    [][(StabKey \in DOMAIN previousVisualizationPositions /\ now' = now)
         => /\ StabKey \in DOMAIN positionTransitions'
            /\ LerpStep(SmoothedX, positionTransitions'[StabKey].currentX,
                        fixedTarget.x)
            /\ LerpStep(SmoothedY, positionTransitions'[StabKey].currentY,
                        fixedTarget.y)
            /\ StabKey \in DOMAIN positionTransitions
                  => /\ TowardTarget(returned.x, returned'.x, SmoothedX,
                                     fixedTarget.x)
                     /\ TowardTarget(returned.y, returned'.y, SmoothedY,
                                     fixedTarget.y)]_vars

\* A call has moved the smoothed position on both axes and the position
\* it returned is not yet the target on either.
C11_Witness ==
    /\ StabKey \in DOMAIN positionTransitions
    /\ returned # Null
    /\ returned.x # fixedTarget.x
    /\ returned.y # fixedTarget.y
    /\ positionTransitions[StabKey].currentX # fixedTarget.x
    /\ previousVisualizationPositions[StabKey].lastSeen > 0

----------------------------------------------------------------------------
(* calculateIntersectionArea on its own (SpecIntersection): two rectangles *)
(* drawn from a grid, and one step that computes their areas.              *)

\* The rectangles: corners on a grid of 50 px, sides of 50 or 100 px.
IntersectionRects ==
    {[x |-> Px(50) * i, y |-> Px(50) * j, width |-> Px(50) * w, height |-> Px(50) * h] :
        i \in 0..2, j \in 0..2, w \in 1..2, h \in 1..2}

InitIntersection ==
    /\ isDetecting = TRUE
    /\ animationId = 0
    /\ allDetectedObjects = EmptyObjects
    /\ previousVisualizationPositions = EmptyObject
    /\ positionTransitions = EmptyObject
    /\ canvas \in {[width |-> Px(640), height |-> Px(480)]}
    /\ startBtnDisabled = TRUE
    /\ stopBtnDisabled = FALSE
    /\ detectionsElement = <<>>
    /\ starts = [media |-> 0, play |-> 0]
    /\ awaiting = [s \in 1..MaxSessions |-> 0]
    /\ rafPending = {}
    /\ now = 0
    /\ frames = 0
    /\ session = 1
    /\ stopped = FALSE
    /\ writtenBy = EmptyObject
    /\ lastPass = NoPass
    /\ scored = Null
    /\ fixedTarget = Null
    /\ returned = Null
    /\ intersection \in {[rect1 |-> a, rect2 |-> b, area |-> Null] :
                            a \in IntersectionRects, b \in IntersectionRects}
    /\ lastCall = Null
    /\ variant2 = Null

\* calculateIntersectionArea(rect1, rect2), (rect2, rect1) and (rect1, rect1)
Intersect ==
    /\ intersection.area = Null
    /\ intersection' =
          [intersection EXCEPT !.area =
              [ab |-> calculateIntersectionArea(intersection.rect1, intersection.rect2),
               ba |-> calculateIntersectionArea(intersection.rect2, intersection.rect1),
               aa |-> calculateIntersectionArea(intersection.rect1, intersection.rect1)]]
    /\ UNCHANGED <<programVars, starts, awaiting, rafPending, now, frames,
                   session, stopped, writtenBy, lastPass, scored, fixedTarget,
                   returned, lastCall, variant2>>

NextIntersection == Intersect

SpecIntersection == InitIntersection /\ [][NextIntersection]_vars

\* The areas have been computed.
Intersected == intersection # Null /\ intersection.area # Null

\* C12: the area of rect1 and rect2 is the area of rect2 and rect1.
C12_Symmetric ==
    Intersected => intersection.area.ab = intersection.area.ba

\* Two rectangles that differ in place and in size overlap in part.
C12_Witness ==
    /\ Intersected
    /\ intersection.rect1.x < intersection.rect2.x
    /\ intersection.rect1.width # intersection.rect2.width
    /\ intersection.rect1.height # intersection.rect2.height
    /\ intersection.area.ab > 0
    /\ intersection.area.ab < intersection.area.aa

\* The squares of 50 px of the grid that lie in the rectangle r.
GridSquares(r) ==
    {<<i, j>> \in (0..3) \X (0..3) :
        /\ r.x <= Px(50) * i
        /\ Px(50) * (i + 1) <= r.x + r.width
        /\ r.y <= Px(50) * j
        /\ Px(50) * (j + 1) <= r.y + r.height}

\* a and b have no inner point in common: apart, or touching along an
\* edge or at a corner.
Apart(a, b) ==
    \/ a.x + a.width <= b.x
    \/ b.x + b.width <= a.x
    \/ a.y + a.height <= b.y
    \/ b.y + b.height <= a.y

\* C13: the area is never negative, is 0 for rectangles that are apart or
\* only touch, is the area of the common part (counted in squares of the
\* grid) otherwise, and the area of a rectangle and itself is its width
\* times its height.
C13_OverlapArea ==
    Intersected =>
       LET a == intersection.rect1
           b == intersection.rect2
       IN  /\ intersection.area.ab >= 0
           /\ Apart(a, b) => intersection.area.ab = 0
           /\ ~Apart(a, b) =>
                 intersection.area.ab
                    = Cardinality(GridSquares(a) \cap GridSquares(b))
                         * Px(50) * Px(50)
           /\ intersection.area.aa = a.width * a.height

\* Two rectangles that touch along an edge, and two that are apart on both
\* axes, have the area 0.
C13_Witness ==
    /\ Intersected
    /\ intersection.area.ab = 0
    /\ \/ /\ intersection.rect1.x + intersection.rect1.width = intersection.rect2.x
          /\ intersection.rect1.y = intersection.rect2.y
       \/ /\ intersection.rect1.x + intersection.rect1.width < intersection.rect2.x
          /\ intersection.rect1.y + intersection.rect1.height < intersection.rect2.y

----------------------------------------------------------------------------
(* Properties of the selection (SpecScore).                                *)

\* The indexes of the candidates scored.
Candidates == 1..Len(scored.positionScores)

\* The candidate at index j is inside the canvas.
InBounds(j) ==
    LET v == scored.positionScores[j].visualization
    IN  /\ v.x >= 0
        /\ v.y >= 0
        /\ v.x + v.width <= canvas.width
        /\ v.y + v.height <= canvas.height

OverlapTerm(j) ==
    LET v == scored.positionScores[j].visualization
    IN  IntersectionSum(v, allDetectedObjects.faces, 1, 0) * 10
          + IntersectionSum(v, allDetectedObjects.physicalObjects, 1, 0) * 5
          + IntersectionSum(v, allDetectedObjects.visualizations, 1, 0) * 5

DistanceTerm(j) ==
    LET v == scored.positionScores[j].visualization
        h == scored.physicalObject
    IN  Distance(h.x + Half(h.width) - (v.x + Half(v.width)),
                 h.y + Half(h.height) - (v.y + Half(v.height)))

ConsistencyTerm(j) ==
    ConsistencyBonus(scored.positionScores[j].visualization,
                     scored.physicalObject.id, previousVisualizationPositions)

\* The preference bonus of line 533.
PreferenceTerm(j) ==
    IF scored.positionScores[j].position = "top" THEN Pt(100) ELSE 0

\* C15: of two candidates inside the canvas with the same overlap
\* penalties, the same distance penalty and the same consistency bonus,
\* the one with the lower preference bonus is not the one returned.
C15_HigherPreferenceWins ==
    scored # Null =>
       \A j, k \in Candidates :
          (/\ InBounds(j) /\ InBounds(k)
           /\ OverlapTerm(j) = OverlapTerm(k)
           /\ DistanceTerm(j) = DistanceTerm(k)
           /\ ConsistencyTerm(j) = ConsistencyTerm(k)
           /\ PreferenceTerm(j) < PreferenceTerm(k))
          => scored.result # scored.positionScores[j].visualization

\* top and bottom are inside the canvas and differ in the preference bonus
\* alone, and top is returned.
C15_Witness ==
    /\ scored # Null
    /\ InBounds(3) /\ InBounds(4)
    /\ OverlapTerm(3) = OverlapTerm(4)
    /\ DistanceTerm(3) = DistanceTerm(4)
    /\ ConsistencyTerm(3) = ConsistencyTerm(4)
    /\ scored.result = scored.positionScores[3].visualization

\* The anchor (100,100,50,50) was scored on the canvas 640x480 with no
\* face, no other anchor, no marker and nothing remembered.
Scenario16 ==
    /\ scored # Null
    /\ scored.physicalObject.x = Px(100) /\ scored.physicalObject.y = Px(100)
    /\ scored.physicalObject.width = Px(50) /\ scored.physicalObject.height = Px(50)
    /\ canvas = [width |-> Px(640), height |-> Px(480)]
    /\ allDetectedObjects = EmptyObjects
    /\ previousVisualizationPositions = EmptyObject

\* The rest of the scenario, with the left candidate at (leftX, 45).
Outcome16(leftX) ==
    LET marker(x, y) == [x |-> x, y |-> y,
                         width |-> Px(100), height |-> Px(160)]
    IN  /\ scored.positionScores[1].visualization = marker(Px(160), Px(45))
        /\ scored.positionScores[2].visualization = marker(leftX, Px(45))
        /\ scored.positionScores[3].visualization = marker(Px(75), Px(-70))
        /\ scored.positionScores[2].score = Pt(-1000)
        /\ scored.positionScores[3].score = Pt(-1000)
        /\ scored.result = marker(Px(160), Px(45))

\* C16 as stated: in the scenario right is (160,45), left is (-60,45), top
\* is (75,-70), left and top score -1000, and right is returned.
C16_AsStated == Scenario16 => Outcome16(Px(-60))

\* C16 as amended: the same with left at (-10,45).
C16_LeftAtMinus10 == Scenario16 => Outcome16(Px(-10))

\* The scenario has been run.
C16_Witness == Scenario16 /\ scored.positionScores[1].score > Pt(-1000)

\* C20: when the 8 candidates of an anchor are inside the canvas and there
\* is no face, no other anchor, no marker and nothing remembered, the right
\* candidate is returned.
C20_RightPreferred ==
    (/\ scored # Null
     /\ \A j \in Candidates : InBounds(j)
     /\ allDetectedObjects = EmptyObjects
     /\ previousVisualizationPositions = EmptyObject)
    => /\ scored.positionScores[1].position = "right"
       /\ scored.result = scored.positionScores[1].visualization

----------------------------------------------------------------------------
(* Properties of the returned positions and of lastSeen.                   *)

\* C18: every position stabilizeVisualizationPosition returns has whole
\* pixels as x and y.
C18_WholePixels ==
    returned # Null => (returned.x % 10 = 0 /\ returned.y % 10 = 0)

\* C19: a memory entry that is there before and after a step has not got
\* an earlier lastSeen, and after a frame pass the entry of every key seen
\* in the pass has the time of the pass as lastSeen.
C19_LastSeenMonotone ==
    [][/\ \A k \in DOMAIN previousVisualizationPositions
                      \cap DOMAIN previousVisualizationPositions' :
             previousVisualizationPositions'[k].lastSeen
                >= previousVisualizationPositions[k].lastSeen
       /\ IsFramePass =>
             \A k \in lastPass'.seen :
                /\ k \in DOMAIN previousVisualizationPositions'
                /\ previousVisualizationPositions'[k].lastSeen = now]_vars

\* A key that had an entry was seen again in a later pass, at a later time.
C19_Witness ==
    \E r \in Placements :
       /\ r.hadEntry
       /\ r.id \in DOMAIN previousVisualizationPositions
       /\ previousVisualizationPositions[r.id].lastSeen > 0
       /\ \E k \in DOMAIN previousVisualizationPositions :
             previousVisualizationPositions[k].lastSeen
                < previousVisualizationPositions[r.id].lastSeen

----------------------------------------------------------------------------
(* A session with two hands (SpecTrack): the first hand is far from the    *)
(* second or next to it, and the second is in one of two places 46 px      *)
(* apart; or the two hands have the same keypoint extent.                  *)

\* box (520,300,60,60)
HandFar  == Hand("Left", 530, 570, 310, 350)
\* box (415,40,60,45)
HandNear == Hand("Left", 425, 465, 50, 75)
\* box (300,250,50,50)
HandX1   == Hand("Right", 310, 340, 260, 290)
\* box (346,250,50,50)
HandX2   == Hand("Right", 356, 386, 260, 290)

TrackDetections ==
    {[faces |-> <<>>, hands |-> <<first, second>>] :
        first \in {HandFar, HandNear}, second \in {HandX1, HandX2}}
      \cup {[faces |-> <<>>, hands |-> <<HandX1, HandX1>>]}

\* The page when startDetection has run on a video of 640x480 and the
\* first detectObjects call is suspended at its await.
InitTrack ==
    /\ isDetecting = TRUE
    /\ animationId = 0
    /\ allDetectedObjects = EmptyObjects
    /\ previousVisualizationPositions = EmptyObject
    /\ positionTransitions = EmptyObject
    /\ canvas \in {[width |-> Px(640), height |-> Px(480)]}
    /\ startBtnDisabled = TRUE
    /\ stopBtnDisabled = FALSE
    /\ detectionsElement = <<>>
    /\ starts = [media |-> 0, play |-> 0]
    /\ awaiting = detectObjectsCall(TRUE, [s \in 1..MaxSessions |-> 0], 1)
    /\ rafPending = {}
    /\ now = 0
    /\ frames = 0
    /\ session = 1
    /\ stopped = FALSE
    /\ writtenBy = EmptyObject
    /\ lastPass = NoPass
    /\ scored = Null
    /\ fixedTarget = Null
    /\ returned = Null
    /\ intersection = Null
    /\ lastCall = Null
    /\ variant2 = Null

TrackPass == FramePassOf(TrackDetections)

NextTrack == TrackPass \/ RafFire

SpecTrack == InitTrack /\ [][NextTrack]_vars

\* The placements of the pass a step ends with.
PlacementsAfter == {lastPass'.placements[j] : j \in 1..Len(lastPass'.placements)}

\* The rectangle of the candidate at index j of the anchor of placement r.
CandidateOf(r, j) ==
    Visualization(candidatePositions[j], r.anchor,
                  visualizationConfig.width, visualizationConfig.height)

\* The candidate at index j of placement r is less than 50 px from the
\* position remembered when r was scored.
NearRemembered(r, j) ==
    LET v == CandidateOf(r, j)
    IN  (v.x - r.previous.x) * (v.x - r.previous.x)
          + (v.y - r.previous.y) * (v.y - r.previous.y) < Px(50) * Px(50)

\* The score of that candidate without the consistency bonus.
BaseScore(r, j) ==
    r.scores[j] - (IF NearRemembered(r, j) THEN Pt(150) ELSE 0)

\* C17: when a key is placed in two passes in a row with the same anchor
\* box, the same faces and the same canvas, the candidate chosen first is
\* inside the canvas and less than 50 px from the position remembered at
\* the second pass, and no other candidate inside the canvas has a base
\* score 150 or more above its base score, then the second pass chooses
\* the same candidate.
C17_Sticky ==
    [][IsFramePass =>
         \A r0 \in Placements, r1 \in PlacementsAfter :
            \A a \in 1..Len(candidatePositions) :
               (/\ r0.id = r1.id
                /\ r0.anchor = r1.anchor
                /\ allDetectedObjects'.faces = allDetectedObjects.faces
                /\ lastPass'.canvas = lastPass.canvas
                /\ r1.hadEntry
                /\ r0.target = CandidateOf(r1, a)
                /\ InsideCanvas(r0.target.x, r0.target.y, lastPass'.canvas)
                /\ NearRemembered(r1, a)
                /\ \A b \in 1..Len(candidatePositions) :
                      InsideCanvas(CandidateOf(r1, b).x, CandidateOf(r1, b).y,
                                   lastPass'.canvas)
                      => BaseScore(r1, b) < BaseScore(r1, a) + Pt(150))
               => r1.target = r0.target]_vars

----------------------------------------------------------------------------
(* The consistency bonus (SpecScore).                                      *)

\* What the score of the candidate at index j holds besides the overlap
\* penalties, the distance penalty and the preference bonus.
BonusReceived(j) ==
    scored.positionScores[j].score + OverlapTerm(j) + DistanceTerm(j)
       - PreferenceTerm(j)

\* The square of the distance from the top-left corner of the candidate at
\* index j to the remembered position m, in 1/100 px^2.
SquaredDistanceTo(j, m) ==
    LET v == scored.positionScores[j].visualization
    IN  (v.x - m.x) * (v.x - m.x) + (v.y - m.y) * (v.y - m.y)

\* C21: a candidate inside the canvas receives the bonus of 150 when the
\* memory has an entry for the id of the anchor and the distance from the
\* candidate's top-left corner to the remembered position is less than 50,
\* and receives nothing otherwise: not at the distance 50, and not without
\* an entry of that id.
C21_BonusIffWithin50 ==
    scored # Null =>
       \A j \in Candidates :
          InBounds(j) =>
             BonusReceived(j) =
                IF /\ scored.physicalObject.id \in DOMAIN previousVisualizationPositions
                   /\ SquaredDistanceTo(j,
                         previousVisualizationPositions[scored.physicalObject.id])
                        < Px(50) * Px(50)
                THEN Pt(150)
                ELSE 0

\* Of the candidates inside the canvas one is 50 px from the remembered
\* position and got no bonus, and another is nearer and got it.
C21_Witness ==
    /\ scored # Null
    /\ scored.physicalObject.id \in DOMAIN previousVisualizationPositions
    /\ \E j \in Candidates :
          /\ InBounds(j)
          /\ SquaredDistanceTo(j,
                previousVisualizationPositions[scored.physicalObject.id])
               = Px(50) * Px(50)
          /\ BonusReceived(j) = 0
    /\ \E j \in Candidates :
          /\ InBounds(j)
          /\ BonusReceived(j) = Pt(150)

\* C22: when at least one of the 8 candidates of an anchor is inside the
\* canvas, the rectangle returned is inside the canvas, whatever the
\* faces, the other anchors and the markers placed before are.
C22_InsideWhenPossible ==
    (scored # Null /\ \E j \in Candidates : InBounds(j))
    => InsideCanvas(scored.result.x, scored.result.y, canvas)

----------------------------------------------------------------------------
(* The obstacles of a frame pass (Spec).                                   *)

\* The position memory as the scoring of placement r read it: the entry of
\* the key of r, if it had one.
RememberedAt(r) ==
    IF r.hadEntry THEN [k \in {r.id} |-> r.previous] ELSE EmptyObject

\* The score of the candidate at index j of the i-th placement of the last
\* pass, were every anchor of the frame in allObjects.physicalObjects.
ScoreAmongAllAnchors(i, j) ==
    LET r == lastPass.placements[i]
    IN  InBoundsScore(candidatePositions[j], CandidateOf(r, j),
                      allDetectedObjects.physicalObjects[i], i,
                      [r.allObjects EXCEPT
                          !.physicalObjects = allDetectedObjects.physicalObjects],
                      RememberedAt(r))

\* C23: the score of every candidate inside the canvas holds the penalty
\* of 5 per px^2 of its intersection with every other anchor of the frame,
\* those later in the detection list as well as those earlier.
C23_EveryOtherAnchorCounted ==
    \A i \in 1..Len(lastPass.placements) :
       \A j \in 1..Len(candidatePositions) :
          LET r == lastPass.placements[i]
              v == CandidateOf(r, j)
          IN  InsideCanvas(v.x, v.y, lastPass.canvas)
                 => r.scores[j] = ScoreAmongAllAnchors(i, j)

\* x, y, width and height of an object.
Box(object) ==
    [x |-> object.x, y |-> object.y, width |-> object.width, height |-> object.height]

\* The list without its element at index i.
Without(list, i) ==
    [k \in 1..(Len(list) - 1) |-> IF k < i THEN list[k] ELSE list[k + 1]]

\* C24: when the candidates of the i-th anchor of a frame are scored the
\* anchor is in allDetectedObjects.physicalObjects, the scores are those
\* the candidates would get were the anchor not in it, and every other
\* anchor of the frame with the same x, y, width and height is in it, as
\* an object the anchor-overlap penalty counts.
C24_SelfAloneLeftOut ==
    \A i \in 1..Len(lastPass.placements) :
       LET r    == lastPass.placements[i]
           list == r.allObjects.physicalObjects
       IN  /\ i <= Len(list)
           /\ list[i].id = r.id
           /\ Box(list[i]) = r.anchor
           /\ \A j \in 1..Len(candidatePositions) :
                 InsideCanvas(CandidateOf(r, j).x, CandidateOf(r, j).y,
                              lastPass.canvas)
                 => r.scores[j] =
                       InBoundsScore(candidatePositions[j], CandidateOf(r, j),
                                     list[i], 0,
                                     [r.allObjects EXCEPT
                                         !.physicalObjects = Without(list, i)],
                                     RememberedAt(r))
           /\ \A k \in 1..Len(lastPass.detection.hands) :
                 (k # i /\ Box(HandObject(lastPass.detection.hands[k], k - 1))
                             = r.anchor)
                 => /\ k <= Len(list)
                    /\ Box(list[k]) = r.anchor

\* The same for the anchors earlier in the detection list alone: the
\* anchor is in the list, and so is every anchor of the same box at an
\* index below i.
EarlierTwinsInList ==
    \A i \in 1..Len(lastPass.placements) :
       LET r    == lastPass.placements[i]
           list == r.allObjects.physicalObjects
       IN  /\ i <= Len(list)
           /\ list[i].id = r.id
           /\ Box(list[i]) = r.anchor
           /\ \A k \in 1..(i - 1) :
                 Box(HandObject(lastPass.detection.hands[k], k - 1)) = r.anchor
                 => Box(list[k]) = r.anchor

\* The rectangles drawn for the first n of the placements, in their order:
\* the returned position with the configured width and height, one per
\* anchor that was placed.
RECURSIVE MarkersDrawn(_, _)
MarkersDrawn(placements, n) ==
    IF n = 0 THEN <<>>
    ELSE MarkersDrawn(placements, n - 1)
         \o (IF placements[n].placed
             THEN <<[x |-> placements[n].result.x, y |-> placements[n].result.y,
                     width  |-> visualizationConfig.width,
                     height |-> visualizationConfig.height]>>
             ELSE <<>>)

\* C25: when the candidates of the i-th anchor of a frame are scored,
\* allDetectedObjects.visualizations holds the stabilized rectangles of the
\* markers placed for the anchors before it in the frame, in processing
\* order, and nothing else.
C25_MarkersPlacedSoFar ==
    \A i \in 1..Len(lastPass.placements) :
       lastPass.placements[i].allObjects.visualizations
          = MarkersDrawn(lastPass.placements, i - 1)

\* The second anchor of a frame was scored against the marker of the
\* first, drawn at a smoothed position that is not the position chosen.
C25_Witness ==
    /\ Len(lastPass.placements) = 2
    /\ lastPass.placements[1].placed
    /\ lastPass.placements[1].result.x # lastPass.placements[1].target.x
    /\ Len(lastPass.placements[2].allObjects.visualizations) = 1
    /\ lastPass.placements[2].allObjects.visualizations[1].x
          = lastPass.placements[1].result.x

\* The faces and the anchors of the detection of the last pass, as
\* drawFaceDetections and drawHandDetections push them.
FacesOfFrame ==
    [k \in 1..Len(lastPass.detection.faces) |-> FaceData(lastPass.detection.faces[k])]

AnchorsOfFrame(n) ==
    [k \in 1..n |-> HandObject(lastPass.detection.hands[k], k - 1)]

\* C26: the obstacle set is rebuilt from empty in every frame pass: the
\* candidates of the i-th anchor are scored against the faces of the
\* frame, the first i anchors of the frame and at most i - 1 markers, and
\* the obstacle set holds the faces and the anchors of the last frame and
\* nothing of an earlier one.
C26_RebuiltEveryFrame ==
    lastPass.detection # Null =>
       /\ \A i \in 1..Len(lastPass.placements) :
             LET objects == lastPass.placements[i].allObjects
             IN  /\ objects.faces = FacesOfFrame
                 /\ objects.physicalObjects = AnchorsOfFrame(i)
                 /\ Len(objects.visualizations) = i - 1
       /\ allDetectedObjects.faces = FacesOfFrame
       /\ allDetectedObjects.physicalObjects
             = AnchorsOfFrame(Len(lastPass.detection.hands))
       /\ Len(allDetectedObjects.visualizations) <= Len(lastPass.detection.hands)

\* A pass with a hand followed a pass that had left anchors in the obstacle
\* set, and its first anchor was scored against itself alone.
C26_Witness ==
    /\ lastPass.previousSeen # {}
    /\ Len(lastPass.placements) >= 1
    /\ Len(lastPass.placements[1].allObjects.physicalObjects) = 1
    /\ lastPass.placements[1].allObjects.visualizations = <<>>
    /\ lastPass.placements[1].allObjects.faces = <<>>

----------------------------------------------------------------------------
(* The cleanup of a frame pass (Spec).                                     *)

\* The ids of the anchors of the detection a frame pass step resolves with.
IdsOfFrame ==
    {HandObject(lastPass'.detection.hands[k], k - 1).id :
        k \in 1..Len(lastPass'.detection.hands)}

\* C27: a frame pass ends with the memory it began with, plus the keys of
\* the anchors of the frame, less the keys that are not of the frame and
\* were last seen more than positionMemoryTimeout ago: one cleanup, run
\* after the placements with the ids of the frame.  The keys not of the
\* frame that remain are unchanged, and every key placed in the frame has
\* its entry, seen now, when the pass ends.
C27_CleanupAfterPlacement ==
    [][IsFramePass =>
         /\ lastPass'.seen = IdsOfFrame
         /\ DOMAIN previousVisualizationPositions'
               = (DOMAIN previousVisualizationPositions \cup IdsOfFrame)
                    \ {k \in DOMAIN previousVisualizationPositions \ IdsOfFrame :
                          now - previousVisualizationPositions[k].lastSeen
                             > stabilizationConfig.positionMemoryTimeout}
         /\ \A k \in DOMAIN previousVisualizationPositions' \ IdsOfFrame :
               previousVisualizationPositions'[k] = previousVisualizationPositions[k]
         /\ \A r \in PlacementsAfter :
               r.placed =>
                  /\ r.id \in DOMAIN previousVisualizationPositions'
                  /\ previousVisualizationPositions'[r.id].lastSeen = now]_vars

\* A pass has placed a key and its cleanup has removed another, which was
\* not among the anchors of the frame.
C27_Witness ==
    /\ lastPass.expired # {}
    /\ lastPass.expired \cap lastPass.seen = {}
    /\ \E r \in Placements :
          /\ r.placed
          /\ r.id \in DOMAIN previousVisualizationPositions
          /\ previousVisualizationPositions[r.id].lastSeen = now

----------------------------------------------------------------------------
(* cleanStalePhysicalObjectPositions on its own (SpecClean): the memory,   *)
(* the clock and the observed ids are drawn from bounded sets.             *)

CleanKeys == {<<"Right", 0>>, <<"Left", 1>>}

\* The lastSeen of the entries and the Date.now() of the calls: the ages
\* are 500, 501, 1000, 1001 and 1500 ms.
CleanLastSeen == {0, 499, 500}
CleanTimes == {1000, 1500}

\* The memories: any keys of CleanKeys, each last seen at one of the times.
CleanMemories ==
    UNION {[keys -> {[x |-> Px(160), y |-> Px(45), lastSeen |-> t] :
                        t \in CleanLastSeen}] : keys \in SUBSET CleanKeys}

InitClean ==
    /\ isDetecting = TRUE
    /\ animationId = 0
    /\ allDetectedObjects = EmptyObjects
    /\ previousVisualizationPositions \in CleanMemories
    /\ positionTransitions
          \in {EmptyObject,
               [k \in DOMAIN previousVisualizationPositions |->
                   [targetX |-> Px(200), targetY |-> Px(45),
                    currentX |-> Px(160), currentY |-> Px(45)]]}
    /\ canvas \in {[width |-> Px(640), height |-> Px(480)]}
    /\ startBtnDisabled = TRUE
    /\ stopBtnDisabled = FALSE
    /\ detectionsElement = <<>>
    /\ starts = [media |-> 0, play |-> 0]
    /\ awaiting = [s \in 1..MaxSessions |-> 0]
    /\ rafPending = {}
    /\ now \in CleanTimes
    /\ frames = 0
    /\ session = 1
    /\ stopped = FALSE
    /\ writtenBy = EmptyObject
    /\ lastPass = NoPass
    /\ scored = Null
    /\ fixedTarget = Null
    /\ returned = Null
    /\ intersection = Null
    /\ lastCall = Null
    /\ variant2 = Null

\* cleanStalePhysicalObjectPositions(seenPhysicalObjectIds); lastPass keeps
\* the set it was called with and the keys it deleted.
CleanCall ==
    /\ frames < MaxFrames
    /\ \E seenPhysicalObjectIds \in SUBSET CleanKeys :
          \E cleaned \in {cleanStalePhysicalObjectPositions(seenPhysicalObjectIds,
                            previousVisualizationPositions, positionTransitions,
                            now)} :
             /\ previousVisualizationPositions' = cleaned.positions
             /\ positionTransitions' = cleaned.transitions
             /\ lastPass' = [lastPass EXCEPT
                                !.seen = seenPhysicalObjectIds,
                                !.previousSeen = lastPass.seen,
                                !.expired = DOMAIN previousVisualizationPositions
                                               \ DOMAIN cleaned.positions]
    /\ frames' = frames + 1
    /\ UNCHANGED <<isDetecting, animationId, allDetectedObjects, canvas,
                   startBtnDisabled, stopBtnDisabled, detectionsElement, starts,
                   awaiting, rafPending, now, session, stopped, writtenBy,
                   otherRuns>>

NextClean == CleanCall

SpecClean == InitClean /\ [][NextClean]_vars

\* C28: a call of the cleanup keeps a key exactly when the key is in the
\* observed set or was last seen no more than positionMemoryTimeout
\* (1000 ms) ago, keeps the entries it keeps as they are, and adds none: a
\* key of the observed set stays whatever its lastSeen, and a key last
\* seen exactly 1000 ms ago stays.
C28_DeletedOnlyWhenUnseenAndOld ==
    [][frames' = frames + 1 =>
         /\ \A k \in DOMAIN previousVisualizationPositions :
               k \in DOMAIN previousVisualizationPositions'
                  <=> (\/ k \in lastPass'.seen
                       \/ now - previousVisualizationPositions[k].lastSeen <= 1000)
         /\ \A k \in DOMAIN previousVisualizationPositions' :
               /\ k \in DOMAIN previousVisualizationPositions
               /\ previousVisualizationPositions'[k]
                     = previousVisualizationPositions[k]]_vars

\* After a call the memory holds a key of the observed set that was last
\* seen more than 1000 ms before, and a key outside the observed set that
\* was last seen exactly 1000 ms before; the call deleted nothing.
C28_Witness ==
    /\ frames >= 1
    /\ lastPass.expired = {}
    /\ \E k \in lastPass.seen \cap DOMAIN previousVisualizationPositions :
          now - previousVisualizationPositions[k].lastSeen > 1000
    /\ \E k \in DOMAIN previousVisualizationPositions \ lastPass.seen :
          now - previousVisualizationPositions[k].lastSeen = 1000

----------------------------------------------------------------------------
(* The remembered and the returned position (SpecStab).                    *)

\* C29: after a call of stabilizeVisualizationPosition for a key that had
\* a memory entry, the x and y kept in the position memory are the x and y
\* the call returned, the rounded smoothed position.
C29_MemoryIsReturned ==
    (returned # Null /\ StabKey \in DOMAIN positionTransitions)
    => /\ previousVisualizationPositions[StabKey].x = returned.x
       /\ previousVisualizationPositions[StabKey].y = returned.y

----------------------------------------------------------------------------
(* stopDetection (Spec).                                                   *)

\* A step that is a call of stopDetection: the stop button gets disabled.
IsStop == ~stopBtnDisabled /\ stopBtnDisabled'

\* C30: when stopDetection returns, allDetectedObjects is empty in its
\* three groups and the detection list is empty.
C30_ClearedOnStop ==
    [][IsStop => /\ allDetectedObjects' = EmptyObjects
                 /\ detectionsElement' = <<>>]_vars

----------------------------------------------------------------------------
(* The life of a key within a session (Spec).                              *)

\* C31: within a session a key leaves the position memory only in the
\* cleanup of a frame pass that did not see it, more than
\* positionMemoryTimeout after it was last seen, and such a key leaves the
\* memory and the transition state in that same step; a key that is
\* placed while it has no memory entry is drawn at the chosen position
\* itself and gets no transition state.
C31_TrackingUntilExpiry ==
    [][session' = session =>
         /\ \A k \in DOMAIN previousVisualizationPositions
                        \ DOMAIN previousVisualizationPositions' :
               /\ IsFramePass
               /\ k \in lastPass'.expired
               /\ k \notin lastPass'.seen
               /\ now - previousVisualizationPositions[k].lastSeen > 1000
         /\ IsFramePass =>
               /\ \A k \in DOMAIN previousVisualizationPositions :
                     (/\ k \notin lastPass'.seen
                      /\ now - previousVisualizationPositions[k].lastSeen > 1000)
                     => /\ k \notin DOMAIN previousVisualizationPositions'
                        /\ k \notin DOMAIN positionTransitions'
               /\ \A r \in PlacementsAfter :
                     r.id \notin DOMAIN previousVisualizationPositions
                     => /\ ~r.hadEntry
                        /\ ~r.hadTransition
                        /\ r.result = [x |-> r.target.x, y |-> r.target.y]
                        /\ r.id \notin DOMAIN positionTransitions']_vars

\* A key that the cleanup of the pass before had expired was placed again,
\* at the chosen position itself.
C31_Witness ==
    \E r \in Placements :
       /\ r.id \in lastPass.previousExpired
       /\ ~r.hadEntry
       /\ r.placed
       /\ r.result = [x |-> r.target.x, y |-> r.target.y]
       /\ r.id \in DOMAIN previousVisualizationPositions
       /\ r.id \notin DOMAIN positionTransitions

----------------------------------------------------------------------------
(* The detection loops (Spec).                                             *)

\* The detectObjects invocations suspended at their await, of all sessions.
RECURSIVE SuspendedFrom(_)
SuspendedFrom(s) ==
    IF s > MaxSessions THEN 0 ELSE awaiting[s] + SuspendedFrom(s + 1)

\* The invocations that go on to run a frame pass: those suspended at the
\* await, which has no test of isDetecting after it, and the callbacks
\* pending while isDetecting is true.
AliveLoops ==
    SuspendedFrom(1) + (IF isDetecting THEN Cardinality(rafPending) ELSE 0)

\* C32: at most one detection loop is alive at any time.
C32_AtMostOneLoop == AliveLoops <= 1

----------------------------------------------------------------------------
(* The keys of a frame pass (SpecTrack).                                   *)

\* C33: the anchors of a frame pass have pairwise distinct ids, the
\* handedness (inverted) with the index in the detection list, so that
\* every anchor is placed from the memory entry its key had when the pass
\* began, and the entries of the keys of the frame are written by one
\* placement each.
C33_DistinctIdsInFrame ==
    [][IsFramePass =>
         LET placements == lastPass'.placements
             hands      == lastPass'.detection.hands
         IN  /\ Len(placements) = Len(hands)
             /\ \A i \in 1..Len(placements) :
                   /\ placements[i].id =
                         <<IF hands[i].handedness = "Left" THEN "Right" ELSE "Left",
                           i - 1>>
                   /\ \A j \in 1..Len(placements) :
                         i # j => placements[i].id # placements[j].id
                   /\ placements[i].hadEntry
                         <=> placements[i].id \in DOMAIN previousVisualizationPositions
                   /\ placements[i].hadEntry =>
                         /\ placements[i].previous.x
                               = previousVisualizationPositions[placements[i].id].x
                         /\ placements[i].previous.y
                               = previousVisualizationPositions[placements[i].id].y
             /\ Cardinality(lastPass'.seen) = Len(hands)]_vars

\* Two hands of the same handedness and the same box were placed in one
\* pass, each from its own memory entry.
C33_Witness ==
    /\ Len(lastPass.placements) = 2
    /\ lastPass.placements[1].anchor = lastPass.placements[2].anchor
    /\ lastPass.placements[1].id[1] = lastPass.placements[2].id[1]
    /\ lastPass.placements[1].hadEntry
    /\ lastPass.placements[2].hadEntry
    /\ lastPass.placements[1].previous # lastPass.placements[2].previous

----------------------------------------------------------------------------
(* The two maps of the stabilization (Spec).                               *)

\* C34: every key with a transition state has a position memory entry,
\* and the x and y of that entry are the currentX and currentY of the
\* transition state.
C34_MemoryIsCurrent ==
    \A k \in DOMAIN positionTransitions :
       /\ k \in DOMAIN previousVisualizationPositions
       /\ previousVisualizationPositions[k].x = positionTransitions[k].currentX
       /\ previousVisualizationPositions[k].y = positionTransitions[k].currentY

\* A key is on its way: its smoothed position is between pixels and short
\* of the target, and the memory holds just that position.
C34_Witness ==
    \E k \in DOMAIN positionTransitions :
       /\ positionTransitions[k].currentX % Px(1) # 0
       /\ positionTransitions[k].currentX # positionTransitions[k].targetX
       /\ k \in DOMAIN previousVisualizationPositions
       /\ previousVisualizationPositions[k].x = positionTransitions[k].currentX
       /\ session = 2

----------------------------------------------------------------------------
(* The three functions called one at a time (SpecEffect): a memory of up   *)
(* to two keys, an obstacle set whose last physical object is the anchor,  *)
(* and calls of stabilizeVisualizationPosition, of                         *)
(* cleanStalePhysicalObjectPositions and of                                *)
(* findOptimalVisualizationPosition in any order.                          *)

\* The obstacle sets after the push of the anchor (line 320).
EffectObjects ==
    {[o EXCEPT !.physicalObjects = @ \o <<a>>] :
        o \in ScoreObstacles,
        a \in {HandObject(HandA, 0), HandObject(Hand("Left", 10, 60, 10, 60), 0)}}

InitEffect ==
    /\ isDetecting = TRUE
    /\ animationId = 0
    /\ allDetectedObjects \in EffectObjects
    /\ previousVisualizationPositions \in CleanMemories
    /\ positionTransitions
          \in {EmptyObject,
               [k \in DOMAIN previousVisualizationPositions |->
                   [targetX |-> Px(200), targetY |-> Px(45),
                    currentX |-> Px(160), currentY |-> Px(45)]]}
    /\ canvas \in {[width |-> Px(640), height |-> Px(480)]}
    /\ startBtnDisabled = TRUE
    /\ stopBtnDisabled = FALSE
    /\ detectionsElement = <<>>
    /\ starts = [media |-> 0, play |-> 0]
    /\ awaiting = [s \in 1..MaxSessions |-> 0]
    /\ rafPending = {}
    /\ now \in CleanTimes
    /\ frames = 0
    /\ session = 1
    /\ stopped = FALSE
    /\ writtenBy = EmptyObject
    /\ lastPass = NoPass
    /\ scored = Null
    /\ fixedTarget = Null
    /\ returned = Null
    /\ intersection = Null
    /\ lastCall = Null
    /\ variant2 = Null

\* stabilizeVisualizationPosition(objectId, newPosition) (lines 404-452)
EffectStabilize ==
    /\ frames < MaxFrames
    /\ \E objectId \in CleanKeys, target \in StabTargets :
          \E st \in {stabilizeVisualizationPosition(
                        objectId,
                        [x |-> target.x, y |-> target.y,
                         width |-> visualizationConfig.width,
                         height |-> visualizationConfig.height],
                        previousVisualizationPositions, positionTransitions,
                        now)} :
             /\ previousVisualizationPositions' = st.positions
             /\ positionTransitions' = st.transitions
             /\ returned' = st.result
             /\ lastCall' = [op |-> "stabilize", objectId |-> objectId,
                             seenPhysicalObjectIds |-> {}]
    /\ frames' = frames + 1
    /\ UNCHANGED <<isDetecting, animationId, allDetectedObjects, canvas,
                   startBtnDisabled, stopBtnDisabled, detectionsElement, starts,
                   awaiting, rafPending, now, session, stopped, writtenBy,
                   lastPass, scored, fixedTarget, intersection, variant2>>

\* cleanStalePhysicalObjectPositions(seenPhysicalObjectIds) (lines 200-216)
EffectClean ==
    /\ frames < MaxFrames
    /\ \E seenPhysicalObjectIds \in SUBSET CleanKeys :
          \E cleaned \in {cleanStalePhysicalObjectPositions(seenPhysicalObjectIds,
                            previousVisualizationPositions, positionTransitions,
                            now)} :
             /\ previousVisualizationPositions' = cleaned.positions
             /\ positionTransitions' = cleaned.transitions
             /\ lastCall' = [op |-> "clean", objectId |-> Null,
                             seenPhysicalObjectIds |-> seenPhysicalObjectIds]
    /\ frames' = frames + 1
    /\ UNCHANGED <<isDetecting, animationId, allDetectedObjects, canvas,
                   startBtnDisabled, stopBtnDisabled, detectionsElement, starts,
                   awaiting, rafPending, now, session, stopped, writtenBy,
                   lastPass, scored, fixedTarget, returned, intersection,
                   variant2>>

\* findOptimalVisualizationPosition for the physical object pushed last
\* (lines 346-353 and 465-557): it reads the obstacle set, the canvas and
\* the position memory and assigns to none of them.
EffectScore ==
    /\ frames < MaxFrames
    /\ \E self \in {Len(allDetectedObjects.physicalObjects)} :
          scored' = [physicalObject |-> allDetectedObjects.physicalObjects[self],
                     positionScores |-> Null,
                     result |->
                        findOptimalVisualizationPosition(
                           allDetectedObjects.physicalObjects[self], self,
                           visualizationConfig.width, visualizationConfig.height,
                           allDetectedObjects, canvas.width, canvas.height,
                           previousVisualizationPositions)]
    /\ lastCall' = [op |-> "score", objectId |-> Null,
                    seenPhysicalObjectIds |-> {}]
    /\ frames' = frames + 1
    /\ UNCHANGED <<programVars, starts, awaiting, rafPending, now, session,
                   stopped, writtenBy, lastPass, fixedTarget, returned,
                   intersection, variant2>>

NextEffect == EffectStabilize \/ EffectClean \/ EffectScore

SpecEffect == InitEffect /\ [][NextEffect]_vars

\* The entry of key k in a map: Null when the map has none.
EntryOf(map, k) == IF k \in DOMAIN map THEN map[k] ELSE Null

\* C35: a call of stabilizeVisualizationPosition(k, P) leaves the entries
\* of every other key in the position memory and in the transition state,
\* and the obstacle set, as they were; a call of
\* cleanStalePhysicalObjectPositions leaves the entries of the observed
\* keys as they were and every entry it keeps unchanged, and adds none; a
\* call of findOptimalVisualizationPosition leaves the position memory,
\* the transition state and the obstacle set as they were.
C35_FrameEffects ==
    [][frames' # frames =>
         /\ lastCall'.op = "stabilize" =>
               /\ \A k \in CleanKeys \ {lastCall'.objectId} :
                     /\ EntryOf(previousVisualizationPositions', k)
                           = EntryOf(previousVisualizationPositions, k)
                     /\ EntryOf(positionTransitions', k)
                           = EntryOf(positionTransitions, k)
               /\ allDetectedObjects' = allDetectedObjects
         /\ lastCall'.op = "clean" =>
               /\ \A k \in lastCall'.seenPhysicalObjectIds :
                     /\ EntryOf(previousVisualizationPositions', k)
                           = EntryOf(previousVisualizationPositions, k)
                     /\ EntryOf(positionTransitions', k)
                           = EntryOf(positionTransitions, k)
               /\ \A k \in DOMAIN previousVisualizationPositions' :
                     previousVisualizationPositions'[k]
                        = EntryOf(previousVisualizationPositions, k)
               /\ \A k \in DOMAIN positionTransitions' :
                     positionTransitions'[k] = EntryOf(positionTransitions, k)
               /\ allDetectedObjects' = allDetectedObjects
         /\ lastCall'.op = "score" =>
               /\ previousVisualizationPositions' = previousVisualizationPositions
               /\ positionTransitions' = positionTransitions
               /\ allDetectedObjects' = allDetectedObjects]_vars

\* A call of stabilizeVisualizationPosition moved the entry of its key
\* while the other key, which has an entry and a transition, was in the
\* maps.
C35_Witness ==
    /\ lastCall # Null
    /\ lastCall.op = "stabilize"
    /\ lastCall.objectId \in DOMAIN positionTransitions
    /\ positionTransitions[lastCall.objectId].currentX # Px(160)
    /\ \E k \in CleanKeys \ {lastCall.objectId} :
          /\ k \in DOMAIN previousVisualizationPositions
          /\ k \in DOMAIN positionTransitions
          /\ previousVisualizationPositions[k].x = Px(160)

----------------------------------------------------------------------------
(* A scene that stands still (SpecSteady): every frame has the detection   *)
(* of the frame before, on a canvas of 640x480 and with the clock standing *)
(* still; the position memory is empty or holds positions left by earlier  *)
(* frames.                                                                 *)

\* box (200,170,101,100): the candidates above and below are at x = 200.5
HandOdd == Hand("Left", 210, 291, 180, 260)

SteadyDetections ==
    TrackDetections
      \cup {[faces |-> <<>>, hands |-> <<HandOdd>>],
            [faces |-> <<Face1>>, hands |-> <<HandA>>],
            [faces |-> <<Face1>>, hands |-> <<HandA2, HandB>>]}

\* What earlier frames left in the position memory: nothing, or a position
\* for each of the two keys.
SteadyMemories ==
    {EmptyObject}
      \cup {[k \in CleanKeys |-> [x |-> p[1], y |-> p[2], lastSeen |-> 0]] :
               p \in {<<Px(0), Px(3)>>, <<Px(530), Px(310)>>,
                      <<Px(330), Px(83) + 5>>, <<Px(262), Px(62)>>}}

InitSteady ==
    /\ isDetecting = TRUE
    /\ animationId = 0
    /\ allDetectedObjects = EmptyObjects
    /\ previousVisualizationPositions \in SteadyMemories
    /\ positionTransitions = EmptyObject
    /\ canvas \in {[width |-> Px(640), height |-> Px(480)]}
    /\ startBtnDisabled = TRUE
    /\ stopBtnDisabled = FALSE
    /\ detectionsElement = <<>>
    /\ starts = [media |-> 0, play |-> 0]
    /\ awaiting = detectObjectsCall(TRUE, [s \in 1..MaxSessions |-> 0], 1)
    /\ rafPending = {}
    /\ now = 0
    /\ frames = 0
    /\ session = 1
    /\ stopped = FALSE
    /\ writtenBy = [k \in DOMAIN previousVisualizationPositions |-> 1]
    /\ lastPass \in {[NoPass EXCEPT !.detection = d] : d \in SteadyDetections}
    /\ scored = Null
    /\ fixedTarget = Null
    /\ returned = Null
    /\ intersection = Null
    /\ lastCall = Null
    /\ variant2 = Null

\* A frame pass on the detection of the frame before, and the request of
\* the next frame (line 193); frames counts the passes up to MaxFrames.
SteadyPass ==
    /\ DetectAndDraw({lastPass.detection})
    /\ frames' = Min(frames + 1, MaxFrames)
    /\ animationId' = 1
    /\ rafPending' = rafPending \cup {1}
    /\ UNCHANGED <<isDetecting, canvas, startBtnDisabled, stopBtnDisabled,
                   starts, now, session, stopped, otherRuns>>

NextSteady == SteadyPass \/ RafFire

\* Frames keep running: the estimates resolve and the browser runs the
\* requested animation frame.
SpecSteady ==
    InitSteady /\ [][NextSteady]_vars /\ WF_vars(SteadyPass) /\ WF_vars(RafFire)

\* The passes before and after a step chose the candidates of the same
\* names.
SameSelection ==
    /\ Len(lastPass'.placements) = Len(lastPass.placements)
    /\ \A j \in 1..Len(lastPass.placements) :
          lastPass'.placements[j].position = lastPass.placements[j].position

\* Every marker of the last pass was drawn at the position of the
\* candidate chosen for it.
DrawnAtCandidate ==
    /\ Len(lastPass.placements) > 0
    /\ \A j \in 1..Len(lastPass.placements) :
          /\ lastPass.placements[j].result.x = lastPass.placements[j].target.x
          /\ lastPass.placements[j].result.y = lastPass.placements[j].target.y

\* Every marker of the last pass was drawn less than a pixel from the
\* position of the candidate chosen for it, and at that position when it is
\* one of whole pixels.
DrawnNextToCandidate ==
    /\ Len(lastPass.placements) > 0
    /\ \A j \in 1..Len(lastPass.placements) :
          \A axis \in {"x", "y"} :
             LET drawn  == lastPass.placements[j].result[axis]
                 chosen == lastPass.placements[j].target[axis]
             IN  /\ drawn - chosen \in (1 - Px(1))..(Px(1) - 1)
                 /\ chosen % Px(1) = 0 => drawn = chosen

\* C36 as stated: from some pass on every pass chooses the candidates the
\* pass before chose, and from some pass on every marker is drawn at the
\* position of its candidate.
C36_AsStated == <>[][SameSelection]_vars /\ <>[]DrawnAtCandidate

\* C36: from some pass on every pass chooses the candidates the pass
\* before chose, and from some pass on every marker is drawn less than a
\* pixel from the position of its candidate, at that position when it is
\* one of whole pixels.
C36_SettlesNextToCandidate == <>[][SameSelection]_vars /\ <>[]DrawnNextToCandidate

\* The scene has stood still for MaxFrames passes and more; a marker whose
\* candidate is between pixels has arrived there and is drawn at the pixel
\* next to it, and a second marker is drawn at its candidate.
C36_Witness ==
    /\ frames = MaxFrames
    /\ lastPass.previousSeen = lastPass.seen
    /\ \E j \in 1..Len(lastPass.placements) :
          LET r == lastPass.placements[j]
          IN  /\ r.hadTransition
              /\ r.target.y % Px(1) # 0
              /\ positionTransitions[r.id].currentY = r.target.y
              /\ r.result.y = MathRound(r.target.y)
              /\ r.result.y # r.target.y
    /\ \E j \in 1..Len(lastPass.placements) :
          LET r == lastPass.placements[j]
          IN  /\ r.hadTransition
              /\ r.previous # Null
              /\ r.result.x = r.target.x
              /\ r.result.y = r.target.y

----------------------------------------------------------------------------
(* The detection loop (SpecLoop): a session on a scene that stands still,  *)
(* in which the awaited estimates resolve or reject and the stop button    *)
(* may be clicked.                                                         *)

InitLoop ==
    /\ InitSteady
    /\ previousVisualizationPositions = EmptyObject

\* A frame pass of detectObjects, completed or ended by the catch block.
LoopPass == SteadyPass \/ DetectionReject

NextLoop == SteadyPass \/ DetectionReject \/ RafFire \/ StopClick

\* The awaited estimates settle, one way or the other, and the browser
\* runs the requested animation frame.
SpecLoop ==
    InitLoop /\ [][NextLoop]_vars /\ WF_vars(LoopPass) /\ WF_vars(RafFire)

\* C37: unless stopDetection is invoked, frame passes, completed or
\* failed, never cease: each of them is followed by another.
C37_PassFollowsPass == <>(~isDetecting) \/ []<><<LoopPass>>_vars

----------------------------------------------------------------------------
(* The candidates and their own anchor (SpecScore).                        *)

\* Sizes of a marker: that of visualizationConfig, a single pixel, and one
\* wider and lower than every anchor.
MarkerSizes ==
    {[width |-> visualizationConfig.width, height |-> visualizationConfig.height],
     [width |-> Px(1), height |-> Px(1)],
     [width |-> Px(301), height |-> Px(7)]}

\* The gap between the rectangles a and b along each axis, when b is
\* beside a on that axis.
GapsBetween(a, b) ==
    {a.x - (b.x + b.width), b.x - (a.x + a.width),
     a.y - (b.y + b.height), b.y - (a.y + a.height)}

\* C38: for the anchor that was scored and a marker of any of the sizes,
\* each of the 8 candidate rectangles has the intersection area 0 with
\* the rectangle of the anchor, taken in either order, and lies 10 px
\* from it along the x axis or along the y axis.
C38_ClearOfOwnAnchor ==
    scored # Null =>
       \A size \in MarkerSizes, j \in 1..Len(candidatePositions) :
          LET anchor == Box(scored.physicalObject)
              v      == Visualization(candidatePositions[j], scored.physicalObject,
                                      size.width, size.height)
          IN  /\ anchor.width > 0 /\ anchor.height > 0
              /\ calculateIntersectionArea(v, anchor) = 0
              /\ calculateIntersectionArea(anchor, v) = 0
              /\ Px(10) \in GapsBetween(anchor, v)

\* An anchor narrower than the marker was scored: the marker above it
\* reaches over it on both sides and ends 10 px above its upper edge.
C38_Witness ==
    /\ scored # Null
    /\ scored.physicalObject.width < visualizationConfig.width
    /\ LET v == Visualization("top", scored.physicalObject,
                              visualizationConfig.width, visualizationConfig.height)
       IN  /\ v.x < scored.physicalObject.x
           /\ v.x + v.width > scored.physicalObject.x + scored.physicalObject.width
           /\ v.y + v.height + Px(10) = scored.physicalObject.y

----------------------------------------------------------------------------
(* The second variant of the engine (app.js from line 561 on), which keeps *)
(* the hands in allDetectedObjects.hands and the memory in                 *)
(* previousRectPositions, and the two variants side by side (SpecPair).    *)

visualizationConfig2 == [width |-> Px(100), height |-> Px(160)]

stabilizationConfig2 ==
    [hysteresisThreshold   |-> Pt(200),
     previousPositionBonus |-> Pt(150),
     positionMemoryTimeout |-> 1000]

\* calculateIntersectionArea of the second variant.
calculateIntersectionArea2(rect1, rect2) ==
    LET xOverlap == Max(0, Min(rect1.x + rect1.width, rect2.x + rect2.width)
                             - Max(rect1.x, rect2.x))
        yOverlap == Max(0, Min(rect1.y + rect1.height, rect2.y + rect2.height)
                             - Max(rect1.y, rect2.y))
    IN  xOverlap * yOverlap

\* Names of the candidatePositions array of the second variant, in its order.
candidatePositions2 ==
    <<"right", "left", "top", "bottom",
      "topRight", "topLeft", "bottomRight", "bottomLeft">>

\* getPosition of the candidate called name, for the hand h.
getPosition2(name, h, rectWidth, rectHeight) ==
    LET rightX  == h.x + h.width + Px(10)
        leftX   == h.x - rectWidth - Px(10)
        midX    == h.x + Half(h.width) - Half(rectWidth)
        topY    == h.y - rectHeight - Px(10)
        bottomY == h.y + h.height + Px(10)
        midY    == h.y + Half(h.height) - Half(rectHeight)
    IN  CASE name = "right"       -> [x |-> rightX, y |-> midY]
          [] name = "left"        -> [x |-> leftX,  y |-> midY]
          [] name = "top"         -> [x |-> midX,   y |-> topY]
          [] name = "bottom"      -> [x |-> midX,   y |-> bottomY]
          [] name = "topRight"    -> [x |-> rightX, y |-> topY]
          [] name = "topLeft"     -> [x |-> leftX,  y |-> topY]
          [] name = "bottomRight" -> [x |-> rightX, y |-> bottomY]
          [] name = "bottomLeft"  -> [x |-> leftX,  y |-> bottomY]

\* The bounds test of a candidate rect.
OutOfBounds2(rect, canvasWidth, canvasHeight) ==
    \/ rect.x < 0
    \/ rect.y < 0
    \/ rect.x + rect.width > canvasWidth
    \/ rect.y + rect.height > canvasHeight

\* Sum of the intersection areas of rect with the rectangles of the list,
\* leaving out the element at index self (0: none left out).
RECURSIVE IntersectionSum2(_, _, _, _)
IntersectionSum2(rect, list, i, self) ==
    IF i > Len(list) THEN 0
    ELSE (IF i = self THEN 0 ELSE calculateIntersectionArea2(rect, list[i]))
         + IntersectionSum2(rect, list, i + 1, self)

\* distanceToPrev < 50
CloseToPrev2(rect, prevPosition) ==
    LET dx == rect.x - prevPosition.x
        dy == rect.y - prevPosition.y
    IN  dx * dx + dy * dy < Px(50) * Px(50)

\* Bonus for preferred positions.
PreferenceBonus2(name) == IF name = "top" THEN Pt(100) ELSE 0

\* Bonus for position consistency: prevPositions is previousRectPositions,
\* read for the id of the hand.
ConsistencyBonus2(rect, id, prevPositions) ==
    IF id \in DOMAIN prevPositions /\ CloseToPrev2(rect, prevPositions[id])
    THEN stabilizationConfig2.previousPositionBonus
    ELSE 0

\* The score of one in-bounds candidate.
InBoundsScore2(name, rect, hand, self, allObjects, prevPositions) ==
    LET cx == hand.x + Half(hand.width)
        cy == hand.y + Half(hand.height)
        vx == rect.x + Half(rect.width)
        vy == rect.y + Half(rect.height)
    IN  0 - IntersectionSum2(rect, allObjects.faces, 1, 0) * 10
          - IntersectionSum2(rect, allObjects.hands, 1, self) * 5
          - IntersectionSum2(rect, allObjects.visualizations, 1, 0) * 5
          - Distance(cx - vx, cy - vy)
          + PreferenceBonus2(name)
          + ConsistencyBonus2(rect, hand.id, prevPositions)

\* const rect of the candidate called name.
Rect(name, hand, rectWidth, rectHeight) ==
    LET p == getPosition2(name, hand, rectWidth, rectHeight)
    IN  [x |-> p.x, y |-> p.y,
         width |-> rectWidth, height |-> rectHeight]

\* The entry of positionScores for one candidate.
ScoreCandidate2(name, hand, self, rectWidth, rectHeight, allObjects, canvasWidth, canvasHeight, prevPositions) ==
    CHOOSE entry \in
      {IF OutOfBounds2(rect, canvasWidth, canvasHeight)
       THEN [position |-> name, rect |-> rect, score |-> Pt(-1000)]
       ELSE [position |-> name, rect |-> rect,
             score |-> InBoundsScore2(name, rect, hand, self,
                                     allObjects, prevPositions)] :
       rect \in {Rect(name, hand, rectWidth,
                                        rectHeight)}} : TRUE

\* candidatePositions.map(...), from the candidate at index i on.
RECURSIVE MapCandidates2(_, _, _, _, _, _, _, _, _)
MapCandidates2(i, hand, self, rectWidth, rectHeight, allObjects, canvasWidth, canvasHeight, prevPositions) ==
    IF i > Len(candidatePositions2) THEN <<>>
    ELSE <<ScoreCandidate2(candidatePositions2[i], hand, self,
                          rectWidth, rectHeight,
                          allObjects, canvasWidth, canvasHeight, prevPositions)>>
         \o MapCandidates2(i + 1, hand, self, rectWidth,
                          rectHeight, allObjects, canvasWidth,
                          canvasHeight, prevPositions)

\* const positionScores, before it is sorted.
positionScores2(hand, self, rectWidth, rectHeight, allObjects, canvasWidth, canvasHeight, prevPositions) ==
    MapCandidates2(1, hand, self, rectWidth, rectHeight,
                  allObjects, canvasWidth, canvasHeight, prevPositions)

\* positionScores.sort((a, b) => b.score - a.score): descending and stable.
RECURSIVE InsertByScore2(_, _)
InsertByScore2(sorted, e) ==
    IF sorted = <<>> THEN <<e>>
    ELSE IF e.score > Head(sorted).score THEN <<e>> \o sorted
    ELSE <<Head(sorted)>> \o InsertByScore2(Tail(sorted), e)

RECURSIVE SortByScore2(_, _, _)
SortByScore2(list, i, sorted) ==
    IF i > Len(list) THEN sorted
    ELSE CHOOSE result \in
           {SortByScore2(list, i + 1, inserted) :
              inserted \in {InsertByScore2(sorted, list[i])}} : TRUE

\* The sorted positionScores[0].
bestPosition2(scores) ==
    CHOOSE best \in {SortByScore2(list, 1, <<>>)[1] : list \in {scores}} : TRUE

\* findOptimalVisualizationPosition(hand, rectWidth, rectHeight, allObjects,
\* canvasWidth, canvasHeight): returns bestPosition.rect.
findOptimalVisualizationPosition2(hand, self, rectWidth, rectHeight, allObjects, canvasWidth, canvasHeight, prevPositions) ==
    bestPosition2(positionScores2(hand, self, rectWidth,
                                rectHeight, allObjects,
                                canvasWidth, canvasHeight, prevPositions)).rect

\* The transition state the call works on.
TransitionFor2(handId, newPosition, prevPos, transitions) ==
    IF handId \notin DOMAIN transitions
    THEN [targetX |-> newPosition.x, targetY |-> newPosition.y,
          currentX |-> prevPos.x, currentY |-> prevPos.y]
    ELSE [transitions[handId] EXCEPT !.targetX = newPosition.x,
                                       !.targetY = newPosition.y]

\* stabilizeVisualizationPosition(handId, newPosition): previousRectPositions
\* and positionTransitions after the call, and the returned position.
stabilizeVisualizationPosition2(handId, newPosition, prevPositions, transitions, currentTime) ==
    IF handId \notin DOMAIN prevPositions
    THEN [positions   |-> Put(prevPositions, handId,
                              [x |-> newPosition.x, y |-> newPosition.y,
                               lastSeen |-> currentTime]),
          transitions |-> transitions,
          result      |-> [x |-> newPosition.x, y |-> newPosition.y]]
    ELSE LET t == TransitionFor2(handId, newPosition, prevPositions[handId],
                                transitions)
             transition == [t EXCEPT !.currentX = Lerp(t.currentX, t.targetX),
                                     !.currentY = Lerp(t.currentY, t.targetY)]
         IN  [positions   |-> Put(prevPositions, handId,
                                  [x |-> transition.currentX,
                                   y |-> transition.currentY,
                                   lastSeen |-> currentTime]),
              transitions |-> Put(transitions, handId, transition),
              result      |-> [x |-> MathRound(transition.currentX),
                               y |-> MathRound(transition.currentY)]]

\* The keys cleanStaleHandPositions deletes.
StaleHandIds(seenHandIds, prevPositions, currentTime) ==
    {handId \in DOMAIN prevPositions :
        /\ handId \notin seenHandIds
        /\ currentTime - prevPositions[handId].lastSeen
              > stabilizationConfig2.positionMemoryTimeout}

\* cleanStaleHandPositions(seenHandIds)
cleanStaleHandPositions(seenHandIds, prevPositions, transitions, currentTime) ==
    LET stale == StaleHandIds(seenHandIds, prevPositions, currentTime)
    IN  [positions   |-> Delete(prevPositions, stale),
         transitions |-> Delete(transitions, stale)]

\* What drawFaceDetections pushes to allDetectedObjects.faces for a face.
FaceData2(face) ==
    [x |-> face.topLeft[1], y |-> face.topLeft[2],
     width  |-> face.bottomRight[1] - face.topLeft[1],
     height |-> face.bottomRight[2] - face.topLeft[2]]

\* drawFaceDetections(faceDetections) on the containers just reset.
drawFaceDetections2(faceDetections) ==
    [objects |-> [faces |-> [i \in 1..Len(faceDetections) |->
                                FaceData2(faceDetections[i])],
                  hands |-> <<>>,
                  visualizations  |-> <<>>],
     list    |-> [i \in 1..Len(faceDetections) |-> "Face"]]

\* The handObject drawHandDetections builds for the hand at index i.
HandObject2(hand, i) ==
    LET padding    == Px(10)
        handedness == IF hand.handedness = "Left" THEN "Right" ELSE "Left"
    IN  [id     |-> <<handedness, i>>,
         x      |-> Max(0, hand.minX - padding),
         y      |-> Max(0, hand.minY - padding),
         width  |-> (hand.maxX - hand.minX) + 2 * padding,
         height |-> (hand.maxY - hand.minY) + 2 * padding,
         label  |-> handedness]

\* One call of the forEach callback of drawHandDetections, for the hand at
\* index i, on the state st of the pass: st.objects is allDetectedObjects,
\* st.positions previousRectPositions, st.transitions positionTransitions,
\* st.seen seenHandIds, and st.rects the rectPosition and the
\* stabilizedPosition of the calls so far.
PlaceHand2(hand, i, st, cv, currentTime) ==
    CHOOSE after \in
      {IF rectPosition # Null
       THEN CHOOSE drawn \in
              {[objects     |-> [objects EXCEPT !.visualizations =
                                    Append(@, [x |-> stabilized.result.x,
                                               y |-> stabilized.result.y,
                                               width  |-> visualizationConfig2.width,
                                               height |-> visualizationConfig2.height])],
                positions   |-> stabilized.positions,
                transitions |-> stabilized.transitions,
                seen        |-> st.seen \cup {handObject.id},
                rects       |-> Append(st.rects,
                                       [rectPosition       |-> rectPosition,
                                        stabilizedPosition |-> stabilized.result])] :
               stabilized \in {stabilizeVisualizationPosition2(handObject.id,
                                  rectPosition, refreshed, st.transitions,
                                  currentTime)}} : TRUE
       ELSE [objects     |-> objects,
             positions   |-> refreshed,
             transitions |-> st.transitions,
             seen        |-> st.seen \cup {handObject.id},
             rects       |-> Append(st.rects,
                                    [rectPosition       |-> Null,
                                     stabilizedPosition |-> Null])] :
       <<handObject, refreshed, objects, rectPosition>> \in
         {LET handObject == HandObject2(hand, i)
              handId     == handObject.id
              refreshed  == IF handId \in DOMAIN st.positions
                            THEN [st.positions EXCEPT
                                     ![handId].lastSeen = currentTime]
                            ELSE st.positions
              objects    == [st.objects EXCEPT !.hands = Append(@, handObject)]
          IN  <<handObject, refreshed, objects,
                findOptimalVisualizationPosition2(handObject, Len(objects.hands),
                    visualizationConfig2.width, visualizationConfig2.height,
                    objects, cv.width, cv.height, refreshed)>>}} : TRUE

\* drawHandDetections(handDetections, seenHandIds): the forEach, from
\* index i on.
RECURSIVE drawHandDetections2(_, _, _, _, _)
drawHandDetections2(handDetections, i, st, cv, currentTime) ==
    IF i >= Len(handDetections) THEN st
    ELSE CHOOSE after \in
           {drawHandDetections2(handDetections, i + 1, next, cv, currentTime) :
              next \in {PlaceHand2(handDetections[i + 1], i, st, cv, currentTime)}} :
           TRUE

\* The rest of detectObjects after its await, for the estimates detection:
\* the state of the second variant after the frame pass.
detectObjects2(detection, engine, cv, currentTime) ==
    CHOOSE after \in
      {[allDetectedObjects    |-> placed.objects,
        previousRectPositions |-> cleaned.positions,
        positionTransitions   |-> cleaned.transitions,
        rects                 |-> placed.rects] :
       <<placed, cleaned>> \in
         {<<p, cleanStaleHandPositions(p.seen, p.positions, p.transitions,
                                       currentTime)>> :
            p \in {drawHandDetections2(detection.hands, 0,
                      [objects     |-> drawFaceDetections2(detection.faces).objects,
                       positions   |-> engine.previousRectPositions,
                       transitions |-> engine.positionTransitions,
                       seen        |-> {},
                       rects       |-> <<>>],
                      cv, currentTime)}}} : TRUE

\* The page with both variants loaded.
InitPair ==
    /\ isDetecting = FALSE
    /\ animationId = 0
    /\ allDetectedObjects = EmptyObjects
    /\ previousVisualizationPositions = EmptyObject
    /\ positionTransitions = EmptyObject
    /\ canvas = [width |-> Px(300), height |-> Px(150)]
    /\ startBtnDisabled = FALSE
    /\ stopBtnDisabled = TRUE
    /\ detectionsElement = <<>>
    /\ starts = [media |-> 0, play |-> 0]
    /\ awaiting = [s \in 1..MaxSessions |-> 0]
    /\ rafPending = {}
    /\ now = 0
    /\ frames = 0
    /\ session = 0
    /\ stopped = FALSE
    /\ writtenBy = EmptyObject
    /\ lastPass = NoPass
    /\ scored = Null
    /\ fixedTarget = Null
    /\ returned = Null
    /\ intersection = Null
    /\ lastCall = Null
    /\ variant2 = [allDetectedObjects    |-> [faces |-> <<>>, hands |-> <<>>,
                                              visualizations |-> <<>>],
                   previousRectPositions |-> EmptyObject,
                   positionTransitions   |-> EmptyObject,
                   rects                 |-> <<>>]

\* video.play() resolved in both variants: the rest of startDetection.
PairStartPlay ==
    /\ starts.play > 0
    /\ starts' = [starts EXCEPT !.play = @ - 1]
    /\ startBtnDisabled' = TRUE
    /\ stopBtnDisabled' = FALSE
    /\ previousVisualizationPositions' = EmptyObject
    /\ positionTransitions' = EmptyObject
    /\ variant2' = [variant2 EXCEPT !.previousRectPositions = EmptyObject,
                                    !.positionTransitions = EmptyObject]
    /\ writtenBy' = EmptyObject
    /\ isDetecting' = TRUE
    /\ session' = session + 1
    /\ awaiting' = detectObjectsCall(TRUE, awaiting, session + 1)
    /\ UNCHANGED <<animationId, allDetectedObjects, canvas, detectionsElement,
                   rafPending, now, frames, stopped, lastPass, scored,
                   fixedTarget, returned, intersection, lastCall>>

\* A frame pass of both variants on the same estimates, canvas and clock.
PairPass ==
    /\ frames < MaxFrames
    /\ DetectAndDraw(Detections)
    /\ variant2' = detectObjects2(lastPass'.detection, variant2, canvas, now)
    /\ frames' = frames + 1
    /\ animationId' = frames + 1
    /\ rafPending' = rafPending \cup {frames + 1}
    /\ UNCHANGED <<isDetecting, canvas, startBtnDisabled, stopBtnDisabled,
                   starts, now, session, stopped, scored, fixedTarget,
                   returned, intersection, lastCall>>

NextPair ==
    \/ StartClick
    \/ StartFail
    \/ StartMetadata
    \/ PairStartPlay
    \/ StopClick
    \/ RafFire
    \/ PairPass
    \/ DetectionReject
    \/ Tick

SpecPair == InitPair /\ [][NextPair]_vars

\* C39: at every point of a run of the two variants side by side, the
\* position memory of the second (previousRectPositions) is that of the
\* first (previousVisualizationPositions), the transition states are the
\* same, and in the last frame pass the second variant chose and returned,
\* hand by hand, the rectangles the first chose and returned.
C39_VariantsAgree ==
    /\ variant2.previousRectPositions = previousVisualizationPositions
    /\ variant2.positionTransitions = positionTransitions
    /\ Len(variant2.rects) = Len(lastPass.placements)
    /\ \A j \in 1..Len(lastPass.placements) :
          /\ variant2.rects[j].rectPosition = lastPass.placements[j].target
          /\ variant2.rects[j].stabilizedPosition = lastPass.placements[j].result
    /\ variant2.allDetectedObjects.faces = allDetectedObjects.faces
    /\ variant2.allDetectedObjects.hands = allDetectedObjects.physicalObjects
    /\ variant2.allDetectedObjects.visualizations = allDetectedObjects.visualizations

\* In a second session both variants placed two markers, one of them on
\* its way between pixels, after a key of the session had expired.
C39_Witness ==
    /\ session = 2
    /\ Len(variant2.rects) = 2
    /\ lastPass.previousExpired # {}
    /\ \E k \in DOMAIN variant2.positionTransitions :
          /\ variant2.positionTransitions[k].currentX % Px(1) # 0
          /\ variant2.positionTransitions[k].currentX
                # variant2.positionTransitions[k].targetX

====
